---- MODULE Spec2Model ----
(***************************************************************************)
(* Model of core/backup.py (qubes-core-admin): the chunked, authenticated  *)
(* backup archive engine.                                                  *)
(*                                                                         *)
(*   - wait_backup_feedback: the supervising copy loop (SpecWbf)           *)
(*   - backup_do + SendWorker: the backup direction (SpecBackup)           *)
(*   - restore_vm_dirs + verify_hmac + ExtractWorker: restore (Spec)       *)
(*                                                                         *)
(* File names are sequences of one-character strings, so that the code's   *)
(* string tests (startswith, endswith, + ".hmac", split("=")) are computed *)
(* as the code computes them.                                              *)
(***************************************************************************)
EXTENDS Integers, Sequences, FiniteSets, TLC

VARIABLES
    \* ---- child processes and the stream read by wait_backup_feedback
    proc,        \* stage name -> "absent" | "alive" | "exit0" | "exit1"
    inData,      \* blocks pending in in_stream
    inClosed,    \* the write end of in_stream is closed (a read at 0 pending gives '')
    \* ---- the call frame of wait_backup_feedback
    wbf_pc,      \* "idle" | "loop" | "returned"
    wbf_ret,     \* the value returned
    wbf_obs,     \* what the last loop iteration read and polled
    wbf_failed,  \* history: some poll of this call returned a non-zero code
    \* ---- backup_do
    b_args,      \* the arguments: files_to_backup, encrypted, compressed, appvm, ...
    b_pc,        \* position of the control process in backup_do
    b_error,     \* the exception backup_do ended with ("" while none)
    b_loc,       \* locals: entry index, chunk index i, chunkfile, run_error, header index
    b_fx,        \* side effects: output file opened, working directory, named pipe
    tarPhase,    \* what tar_sparse is doing with the named pipe
    files,       \* names of the files present in the working directory
    openW,       \* names of the files the control process has open for writing
    to_send,     \* the send queue (capacity 10)
    sent_log,    \* history: every name ever put on the send queue, in order
    \* ---- SendWorker
    send_pc,     \* "none" | "get" | "tar" | "done" | "failed" | "terminated"
    send_cur,    \* the file SendWorker is sending
    \* ---- restore_vm_dirs
    r_args,      \* the arguments: appvm, vms_dirs, hmac_algorithm, encrypted, ...
    r_pc,        \* position of the control thread in restore_vm_dirs
    r_error,     \* the exception restore_vm_dirs ended with ("" while none)
    r_loc,       \* locals: filename, hmacfile, nextfile, hmac_algorithm, ...
    lines,       \* lines read from filelist_pipe so far
    ended,       \* filelist_pipe is at its end: every further readline gives ''
    disk,        \* names of the files present in restore_tmpdir
    to_extract,  \* the queue to ExtractWorker
    verified,    \* history: names verify_hmac has returned True for
    put_log,     \* history: the filenames put on to_extract, in order
    v_last,      \* history: the inputs and the outcome of the last verify_hmac call
    \* ---- ExtractWorker
    x_pc,        \* "none" | "get" | "open" | "wbf" | "finish" | "done" | "failed"
    x_cur,       \* the filename taken from the queue
    x_opts,      \* the worker's own encrypted, compressed, crypto_algorithm
    fed,         \* history: names ExtractWorker has opened for extraction, in order
    \* ---- prepare_backup_header, parse_backup_header, load_hmac called alone
    f_args,      \* the arguments of the call
    f_pc,        \* position in the called function
    f_loc,       \* its locals, and the header file
    f_ret        \* what it returned

wbfVars == <<proc, inData, inClosed, wbf_pc, wbf_ret, wbf_obs, wbf_failed>>

backupVars == <<b_args, b_pc, b_error, b_loc, b_fx, tarPhase, files, openW,
                to_send, sent_log, send_pc, send_cur>>

restoreVars == <<r_args, r_pc, r_error, r_loc, lines, ended, disk, to_extract,
                 verified, put_log, v_last, x_pc, x_cur, x_opts, fed>>

fnVars == <<f_args, f_pc, f_loc, f_ret>>

vars == <<wbfVars, backupVars, restoreVars, fnVars>>

\* ------------------------------------------------------------------ bounds

MaxBlocks == 1

\* volumes (chunks) tar_sparse makes of one entry at most
MaxChunks == 2

\* entries of a backup plan at most
MaxPlan == 2

\* lines the demultiplexer prints on filelist_pipe before its end
MaxLines == 4

\* blocks tar_sparse writes in a backup whose bytes are followed
MaxProduced == 3

\* ------------------------------------------------------------------ strings

Last(s) == s[Len(s)]

StartsWith(s, p) == Len(p) <= Len(s) /\ SubSeq(s, 1, Len(p)) = p

EndsWith(s, p) == Len(p) <= Len(s) /\ SubSeq(s, Len(s) - Len(p) + 1, Len(s)) = p

Digit(d) == <<"0", "1", "2", "3", "4", "5", "6", "7", "8", "9">>[d + 1]

RECURSIVE Decimal(_)
Decimal(n) == IF n < 10 THEN <<Digit(n)>> ELSE Decimal(n \div 10) \o <<Digit(n % 10)>>

Pad3Mutant(i) == Decimal(i)

\* "%03d" % i
Pad3(i) ==
    LET d == Decimal(i)
    IN  IF Len(d) = 1 THEN <<"0", "0">> \o d
        ELSE IF Len(d) = 2 THEN <<"0">> \o d
        ELSE d

DEFAULT_CRYPTO_ALGORITHM == "aes-256-cbc"

HEADER_FILENAME == <<"b", "a", "c", "k", "u", "p", "-", "h", "e", "a", "d", "e", "r">>

DotHmac == <<".", "h", "m", "a", "c">>

FINISHED == <<"F", "I", "N", "I", "S", "H", "E", "D">>

\* os.path.join(a, b) for a relative b
JoinPath(a, b) ==
    IF a = <<>> THEN b
    ELSE IF Last(a) = "/" THEN a \o b
    ELSE a \o <<"/">> \o b

\* ------------------------------------------------- wait_backup_feedback

Stages == {"hmac", "addproc", "vmproc", "streamproc"}

Status == {"absent", "alive", "exit0", "exit1"}

\* Popen.poll(): None while the process runs, else its exit code
Exited(st) == st \in {"exit0", "exit1"}

NonZero(st) == st = "exit1"

NoObs == [valid |-> FALSE, buf |-> 0, hmac |-> "absent", addproc |-> "absent",
          vmproc |-> "absent", streamproc |-> "absent"]

\* wait_backup_feedback without the return at line 660
WbfIterationNoDrain(buf, p) ==
    LET e1 == IF p.hmac # "absent" /\ NonZero(p.hmac) THEN "hmac" ELSE "None"
        c1 == IF p.hmac = "alive" THEN 1 ELSE 0
        e2 == IF p.addproc # "absent" /\ NonZero(p.addproc) THEN "addproc" ELSE e1
        c2 == c1 + (IF p.addproc = "alive" THEN 1 ELSE 0)
        e3 == IF p.vmproc # "absent" /\ NonZero(p.vmproc) THEN "VM" ELSE e2
        loop(err, cnt) ==
            IF cnt > 0 /\ err = "None"
            THEN [done |-> FALSE, value |-> "None", wrote |-> TRUE]
            ELSE [done |-> TRUE, value |-> err, wrote |-> TRUE]
    IN  IF p.streamproc # "absent"
        THEN IF Exited(p.streamproc) /\ NonZero(p.streamproc)
             THEN [done |-> TRUE, value |-> "streamproc", wrote |-> FALSE]
             ELSE loop(e3, c2 + 1)
        ELSE IF buf <= 0
             THEN [done |-> TRUE, value |-> "", wrote |-> FALSE]
             ELSE loop(e3, c2)

\* wait_backup_feedback with the return at line 660 moved out of
\* `if retcode != None`: "" on an empty read also while streamproc runs
WbfIterationEofReturns(buf, p) ==
    LET e1 == IF p.hmac # "absent" /\ NonZero(p.hmac) THEN "hmac" ELSE "None"
        c1 == IF p.hmac = "alive" THEN 1 ELSE 0
        e2 == IF p.addproc # "absent" /\ NonZero(p.addproc) THEN "addproc" ELSE e1
        c2 == c1 + (IF p.addproc = "alive" THEN 1 ELSE 0)
        e3 == IF p.vmproc # "absent" /\ NonZero(p.vmproc) THEN "VM" ELSE e2
        loop(err, cnt) ==
            IF cnt > 0 /\ err = "None"
            THEN [done |-> FALSE, value |-> "None", wrote |-> TRUE]
            ELSE [done |-> TRUE, value |-> err, wrote |-> TRUE]
    IN  IF p.streamproc # "absent"
        THEN IF Exited(p.streamproc) /\ NonZero(p.streamproc)
             THEN [done |-> TRUE, value |-> "streamproc", wrote |-> FALSE]
             ELSE IF buf <= 0
                  THEN [done |-> TRUE, value |-> "", wrote |-> FALSE]
                  ELSE loop(e3, c2 + 1)
        ELSE IF buf <= 0
             THEN [done |-> TRUE, value |-> "", wrote |-> FALSE]
             ELSE loop(e3, c2)

\* One iteration of the while loop, from `buffer = in_stream.read()` to the
\* loop test: buf is len(buffer), p the status each poll() finds.
\* Result: done (the call returns), value (what it returns; "None" is
\* Python's None), wrote (buffer was written to backup_target and hmac.stdin).
WbfIteration(buf, p) ==
    LET e1 == IF p.hmac # "absent" /\ NonZero(p.hmac) THEN "hmac" ELSE "None"
        c1 == IF p.hmac = "alive" THEN 1 ELSE 0
        e2 == IF p.addproc # "absent" /\ NonZero(p.addproc) THEN "addproc" ELSE e1
        c2 == c1 + (IF p.addproc = "alive" THEN 1 ELSE 0)
        e3 == IF p.vmproc # "absent" /\ NonZero(p.vmproc) THEN "VM" ELSE e2
        loop(err, cnt) ==
            IF cnt > 0 /\ err = "None"
            THEN [done |-> FALSE, value |-> "None", wrote |-> TRUE]
            ELSE [done |-> TRUE, value |-> err, wrote |-> TRUE]
    IN  IF p.streamproc # "absent"
        THEN IF Exited(p.streamproc)
             THEN IF NonZero(p.streamproc)
                  THEN [done |-> TRUE, value |-> "streamproc", wrote |-> FALSE]
                  ELSE IF buf <= 0
                       THEN [done |-> TRUE, value |-> "", wrote |-> FALSE]
                       ELSE loop(e3, c2 + 1)
             ELSE loop(e3, c2 + 1)
        ELSE IF buf <= 0
             THEN [done |-> TRUE, value |-> "", wrote |-> FALSE]
             ELSE loop(e3, c2)

\* When the bytes of a backup are followed (f_pc = "bytes"), a block is named
\* by its number in the order tar_sparse writes them; f_loc holds the number
\* of blocks written so far (produced), the blocks written to the open chunk
\* file (target) and to the stdin of the running digest tool (stdin), and
\* what was written to the last .hmac file (hmac_file); f_ret is the list of
\* the chunks put on the queue with their .hmac file
Tracking == f_pc = "bytes"

Track(loc, ret) ==
    IF Tracking
    THEN f_loc' = loc /\ f_ret' = ret /\ UNCHANGED <<f_args, f_pc>>
    ELSE UNCHANGED fnVars

NoBytes == [produced |-> 0, target |-> <<>>, stdin |-> <<>>,
            hmac_file |-> [over |-> <<>>, ok |-> FALSE]]

\* lines 665-668: backup_target.write(buffer), then hmac.stdin.write(buffer)
\* when there is a digest tool
Written(loc, buf, wrote) ==
    IF Tracking /\ wrote /\ buf > 0
    THEN [loc EXCEPT !.target = Append(@, loc.produced),
                     !.stdin = IF proc.hmac # "absent"
                               THEN Append(@, loc.produced) ELSE @]
    ELSE loc

\* in_stream.read(buffer_size) blocks until data is there or the writer closed
CanRead == inData > 0 \/ inClosed

ReadLen == IF inData > 0 THEN 1 ELSE 0

\* The loop of wait_backup_feedback, one iteration per step
WbfStep ==
    /\ wbf_pc = "loop"
    /\ CanRead
    /\ LET buf == ReadLen
           r == WbfIteration(buf, proc)
       IN  /\ inData' = inData - buf
           /\ wbf_obs' = [valid |-> TRUE, buf |-> buf, hmac |-> proc.hmac,
                          addproc |-> proc.addproc, vmproc |-> proc.vmproc,
                          streamproc |-> proc.streamproc]
           /\ wbf_failed' = (wbf_failed \/ \E s \in Stages : NonZero(proc[s]))
           /\ wbf_pc' = IF r.done THEN "returned" ELSE "loop"
           /\ wbf_ret' = IF r.done THEN r.value ELSE wbf_ret
    /\ UNCHANGED <<proc, inClosed>>
    /\ UNCHANGED backupVars
    /\ UNCHANGED restoreVars
    /\ Track(Written(f_loc, ReadLen, WbfIteration(ReadLen, proc).wrote), f_ret)

\* ---- the callers' side of a call, as seen by wait_backup_feedback alone:
\* any monitored stage may exit with any code at any time, the stream may
\* deliver a block or be closed by its writer.
StageExits ==
    /\ wbf_pc = "loop"
    /\ \E s \in Stages, st \in {"exit0", "exit1"} :
          /\ proc[s] = "alive"
          /\ proc' = [proc EXCEPT ![s] = st]
    /\ UNCHANGED <<inData, inClosed, wbf_pc, wbf_ret, wbf_obs, wbf_failed>>
    /\ UNCHANGED backupVars
    /\ UNCHANGED restoreVars
    /\ UNCHANGED fnVars

StreamDelivers ==
    /\ wbf_pc = "loop"
    /\ ~inClosed
    /\ inData < MaxBlocks
    /\ inData' = inData + 1
    /\ UNCHANGED <<proc, inClosed, wbf_pc, wbf_ret, wbf_obs, wbf_failed>>
    /\ UNCHANGED backupVars
    /\ UNCHANGED restoreVars
    /\ UNCHANGED fnVars

StreamCloses ==
    /\ wbf_pc = "loop"
    /\ ~inClosed
    /\ inClosed' = TRUE
    /\ UNCHANGED <<proc, inData, wbf_pc, wbf_ret, wbf_obs, wbf_failed>>
    /\ UNCHANGED backupVars
    /\ UNCHANGED restoreVars
    /\ UNCHANGED fnVars

WbfIdle ==
    /\ proc = [s \in Stages |-> "absent"]
    /\ inData = 0
    /\ inClosed = FALSE
    /\ wbf_pc = "idle"
    /\ wbf_ret = "None"
    /\ wbf_obs = NoObs
    /\ wbf_failed = FALSE

NoArgs == [files_to_backup |-> <<>>, encrypted |-> FALSE, compressed |-> FALSE,
           appvm |-> FALSE, dir_exists |-> FALSE]

NoLocals == [entry |-> 0, i |-> 0, chunkfile |-> <<>>, run_error |-> "", header |-> 0]

NoEffects == [backup_stdout |-> FALSE, backup_tmpdir |-> FALSE, backup_pipe |-> FALSE]

\* backup_do is not running
BackupIdle ==
    /\ b_args = NoArgs
    /\ b_pc = "idle"
    /\ b_error = ""
    /\ b_loc = NoLocals
    /\ b_fx = NoEffects
    /\ tarPhase = "none"
    /\ files = {}
    /\ openW = {}
    /\ to_send = <<>>
    /\ sent_log = <<>>
    /\ send_pc = "none"
    /\ send_cur = <<>>

\* restore_vm_dirs has not been called
NoHeader == [hmac_algorithm |-> "absent", encrypted |-> "absent",
             compressed |-> "absent", crypto_algorithm |-> "absent"]

NoRestoreArgs == [appvm |-> FALSE, vms_dirs |-> <<>>, hmac_algorithm |-> "",
                  encrypted |-> FALSE, compressed |-> FALSE, crypto_algorithm |-> ""]

NoOpts == [encrypted |-> FALSE, compressed |-> FALSE, crypto_algorithm |-> ""]

NoRestoreLocals ==
    [filename |-> <<>>, hmacfile |-> <<>>, nextfile |-> <<>>, has_next |-> FALSE,
     hmac_algorithm |-> "", encrypted |-> FALSE, compressed |-> FALSE,
     crypto_algorithm |-> "", header_data |-> NoHeader,
     algo |-> 0, data |-> "", text |-> <<>>, expect_tar_error |-> FALSE,
     has_header |-> FALSE]

NoVerify == [called |-> FALSE, header |-> FALSE, retry |-> FALSE, match |-> FALSE,
             authentic |-> FALSE, algorithm |-> "",
             parsed |-> FALSE, nonempty |-> FALSE, equal |-> FALSE, ret |-> "",
             started |-> FALSE, unlinked |-> FALSE, nput |-> 0]

RestoreIdle ==
    /\ r_args = NoRestoreArgs
    /\ r_pc = "idle"
    /\ r_error = ""
    /\ r_loc = NoRestoreLocals
    /\ lines = 0
    /\ ended = FALSE
    /\ disk = {}
    /\ to_extract = <<>>
    /\ verified = {}
    /\ put_log = <<>>
    /\ v_last = NoVerify
    /\ x_pc = "none"
    /\ x_cur = <<>>
    /\ x_opts = NoOpts
    /\ fed = <<>>

\* wait_backup_feedback called with any combination of hmac, addproc, vmproc
\* and streamproc given or None
\* none of the three functions is called alone
FnIdle ==
    /\ f_args = <<>>
    /\ f_pc = "idle"
    /\ f_loc = <<>>
    /\ f_ret = <<>>

InitWbf ==
    /\ proc \in [Stages -> {"absent", "alive"}]
    /\ inData = 0
    /\ inClosed = FALSE
    /\ wbf_pc = "loop"
    /\ wbf_ret = "None"
    /\ wbf_obs = NoObs
    /\ wbf_failed = FALSE
    /\ BackupIdle
    /\ RestoreIdle
    /\ FnIdle

NextWbf ==
    \/ WbfStep
    \/ StageExits
    \/ StreamDelivers
    \/ StreamCloses

SpecWbf == InitWbf /\ [][NextWbf]_vars

\* The stage that writes in_stream: streamproc when given, else addproc
Producer(obs) == IF obs.streamproc # "absent" THEN obs.streamproc ELSE obs.addproc

StageNames == {"hmac", "addproc", "VM", "streamproc"}

\* C7: wait_backup_feedback returns the name of a failed stage whenever a
\* poll during the call returned a non-zero exit code, and returns "" only
\* if no poll during the call saw a non-zero exit code.
WbfReportsFailure ==
    wbf_pc = "returned" =>
        /\ (wbf_failed => wbf_ret \in StageNames)
        /\ (wbf_ret = "" => ~wbf_failed)

\* C8: a read of zero bytes with the producer exited 0 and no stage failed
\* makes the call return "".
WbfDrainedOk ==
    (wbf_obs.valid /\ wbf_obs.buf = 0 /\ Producer(wbf_obs) = "exit0" /\ ~wbf_failed)
        => (wbf_pc = "returned" /\ wbf_ret = "")

WbfDrainedOkWitness ==
    /\ wbf_obs.valid /\ wbf_obs.buf = 0 /\ ~wbf_failed
    /\ wbf_obs.streamproc = "exit0"
    /\ wbf_pc = "returned" /\ wbf_ret = ""

QueueCapacity == 10

\* The entries backup_prepare can put in a plan: distinct files, each with a
\* subdir that is empty or ends in '/', and a size >= 0
Entries ==
    { [path |-> <<"a">>, subdir |-> <<"v", "m", "1", "/">>, size |-> 1],
      [path |-> <<"q">>, subdir |-> <<>>, size |-> 0] }

Plans ==
    { p \in UNION { [1..n -> Entries] : n \in 0..MaxPlan } :
        \A j, k \in DOMAIN p : j # k => p[j] # p[k] }

RECURSIVE SumSizes(_)
SumSizes(plan) == IF plan = <<>> THEN 0 ELSE Head(plan).size + SumSizes(Tail(plan))

total_backup_sz == SumSizes(b_args.files_to_backup)

\* os.path.relpath(chunkfile, backup_tmpdir) for
\* chunkfile = join(backup_tmpdir, subdir, basename(path)) + "." + "%03d" % i
ChunkPath(entry, i) == JoinPath(entry.subdir, entry.path) \o <<".">> \o Pad3(i)

\* The tuple prepare_backup_header returns
HeaderFiles == <<HEADER_FILENAME, HEADER_FILENAME \o DotHmac>>

Raise(msg) ==
    /\ b_pc' = "raised"
    /\ b_error' = msg

\* to_send.put(name): blocks while the queue is full
CanPut == Len(to_send) < QueueCapacity

Put(name) ==
    /\ to_send' = Append(to_send, name)
    /\ sent_log' = Append(sent_log, name)

UnsupportedMutant == FALSE

\* line 382: `if compressed and encrypted`
Unsupported == b_args.compressed /\ b_args.encrypted

\* lines 378-384: the size total, and the encrypted-and-compressed test
BCheck ==
    /\ b_pc = "check"
    /\ IF Unsupported
       THEN Raise("not supported")
       ELSE b_pc' = "target" /\ UNCHANGED b_error
    /\ UNCHANGED <<b_args, b_loc, b_fx, tarPhase, files, openW, to_send, sent_log,
                   send_pc, send_cur>>
    /\ UNCHANGED wbfVars
    /\ UNCHANGED restoreVars
    /\ UNCHANGED fnVars

\* lines 386-409: the helper-VM process, or the local output file
BTarget ==
    /\ b_pc = "target"
    /\ IF b_args.appvm
       THEN /\ proc' = [proc EXCEPT !.vmproc = "alive"]
            /\ b_pc' = "progress"
            /\ UNCHANGED <<b_error, b_fx>>
       ELSE IF ~b_args.dir_exists
            THEN Raise("no backup directory") /\ UNCHANGED <<proc, b_fx>>
            ELSE /\ b_fx' = [b_fx EXCEPT !.backup_stdout = TRUE]
                 /\ b_pc' = "progress"
                 /\ UNCHANGED <<proc, b_error>>
    /\ UNCHANGED <<b_args, b_loc, tarPhase, files, openW, to_send, sent_log,
                   send_pc, send_cur>>
    /\ UNCHANGED <<inData, inClosed, wbf_pc, wbf_ret, wbf_obs, wbf_failed>>
    /\ UNCHANGED restoreVars
    /\ UNCHANGED fnVars

\* lines 411-414: progress = blocks_backedup * 11 / total_backup_sz
BProgress ==
    /\ b_pc = "progress"
    /\ IF total_backup_sz = 0
       THEN Raise("ZeroDivisionError")
       ELSE b_pc' = "tmpdir" /\ UNCHANGED b_error
    /\ UNCHANGED <<b_args, b_loc, b_fx, tarPhase, files, openW, to_send, sent_log,
                   send_pc, send_cur>>
    /\ UNCHANGED wbfVars
    /\ UNCHANGED restoreVars
    /\ UNCHANGED fnVars

\* lines 416-437: mkdtemp, mkfifo, prepare_backup_header (lines 355-372):
\* the header's digest tool exits with 0 or not
BTmpdir ==
    /\ b_pc = "tmpdir"
    /\ b_fx' = [b_fx EXCEPT !.backup_tmpdir = TRUE, !.backup_pipe = TRUE]
    /\ files' = {HeaderFiles[1], HeaderFiles[2]}
    /\ \E hmac_ok \in BOOLEAN :
          IF hmac_ok
          THEN b_pc' = "start_send" /\ UNCHANGED b_error
          ELSE Raise("Failed to compute hmac of header file")
    /\ UNCHANGED <<b_args, b_loc, tarPhase, openW, to_send, sent_log, send_pc, send_cur>>
    /\ UNCHANGED wbfVars
    /\ UNCHANGED restoreVars
    /\ UNCHANGED fnVars

\* lines 446-448
BStartSend ==
    /\ b_pc = "start_send"
    /\ send_pc' = "get"
    /\ b_loc' = [b_loc EXCEPT !.header = 1]
    /\ b_pc' = "put_header"
    /\ UNCHANGED <<b_args, b_error, b_fx, tarPhase, files, openW, to_send, sent_log,
                   send_cur>>
    /\ UNCHANGED wbfVars
    /\ UNCHANGED restoreVars
    /\ UNCHANGED fnVars

\* lines 450-451
BPutHeader ==
    /\ b_pc = "put_header"
    /\ CanPut
    /\ Put(HeaderFiles[b_loc.header])
    /\ IF b_loc.header = Len(HeaderFiles)
       THEN b_pc' = "next_entry" /\ b_loc' = [b_loc EXCEPT !.entry = 1]
       ELSE b_pc' = "put_header" /\ b_loc' = [b_loc EXCEPT !.header = @ + 1]
    /\ UNCHANGED <<b_args, b_error, b_fx, tarPhase, files, openW, send_pc, send_cur>>
    /\ UNCHANGED wbfVars
    /\ UNCHANGED restoreVars
    /\ UNCHANGED fnVars

\* lines 453-490: the next entry of the plan: tar_sparse is started on it
BNextEntry ==
    /\ b_pc = "next_entry"
    /\ IF b_loc.entry > Len(b_args.files_to_backup)
       THEN /\ b_pc' = "put_finished"
            /\ UNCHANGED <<proc, b_loc, tarPhase>>
       ELSE /\ proc' = [proc EXCEPT !.addproc = "alive"]
            /\ tarPhase' = "opening"
            /\ b_loc' = [b_loc EXCEPT !.i = 0, !.run_error = "paused"]
            /\ b_pc' = "open_pipe"
    /\ UNCHANGED <<b_args, b_error, b_fx, files, openW, to_send, sent_log,
                   send_pc, send_cur>>
    /\ UNCHANGED <<inData, inClosed, wbf_pc, wbf_ret, wbf_obs, wbf_failed>>
    /\ UNCHANGED restoreVars
    /\ UNCHANGED fnVars

\* lines 491-532: open(backup_pipe) returns once tar_sparse has opened the
\* pipe for writing; then the digest tool, the chunk file, the encryptor or
\* compressor are started and wait_backup_feedback is called
BOpenPipe ==
    /\ b_pc = "open_pipe"
    /\ tarPhase = "opening"
    /\ tarPhase' = "writing"
    /\ LET chunkfile == ChunkPath(b_args.files_to_backup[b_loc.entry], b_loc.i)
       IN  /\ b_loc' = [b_loc EXCEPT !.chunkfile = chunkfile, !.i = @ + 1]
           /\ files' = files \cup {chunkfile}
           /\ openW' = openW \cup {chunkfile}
    /\ proc' = [proc EXCEPT !.hmac = "alive",
                            !.streamproc = IF b_args.encrypted \/ b_args.compressed
                                           THEN "alive" ELSE "absent"]
    /\ inData' = 0
    /\ inClosed' = FALSE
    /\ wbf_pc' = "loop"
    /\ wbf_ret' = "None"
    /\ wbf_obs' = NoObs
    /\ wbf_failed' = FALSE
    /\ b_pc' = "wbf"
    /\ UNCHANGED <<b_args, b_error, b_fx, to_send, sent_log, send_pc, send_cur>>
    /\ UNCHANGED restoreVars
    /\ Track([f_loc EXCEPT !.target = <<>>, !.stdin = <<>>], f_ret)

ChunkfileClosedMutant == openW

\* line 534: chunkfile_p.close()
ChunkfileClosed == openW \ {b_loc.chunkfile}

\* lines 534-546: the chunk file is closed; a non-empty run_error ends the
\* backup (len(None) is a TypeError)
BChunkClose ==
    /\ b_pc = "wbf"
    /\ wbf_pc = "returned"
    /\ wbf_pc' = "idle"
    /\ wbf_ret' = "None"
    /\ wbf_obs' = NoObs
    /\ wbf_failed' = FALSE
    /\ b_loc' = [b_loc EXCEPT !.run_error = wbf_ret]
    /\ openW' = ChunkfileClosed
    /\ IF wbf_ret = "None"
       THEN Raise("TypeError") /\ UNCHANGED send_pc
       ELSE IF wbf_ret # ""
            THEN /\ send_pc' = IF send_pc \in {"get", "tar"} THEN "terminated" ELSE send_pc
                 /\ Raise(wbf_ret)
            ELSE b_pc' = "put_chunk" /\ UNCHANGED <<b_error, send_pc>>
    /\ UNCHANGED <<b_args, b_fx, tarPhase, files, to_send, sent_log, send_cur>>
    /\ UNCHANGED <<proc, inData, inClosed>>
    /\ UNCHANGED restoreVars
    /\ UNCHANGED fnVars

\* line 549
BPutChunk ==
    /\ b_pc = "put_chunk"
    /\ CanPut
    /\ Put(b_loc.chunkfile)
    /\ b_pc' = "hmac_close"
    /\ UNCHANGED <<b_args, b_error, b_loc, b_fx, tarPhase, files, openW, send_pc, send_cur>>
    /\ UNCHANGED wbfVars
    /\ UNCHANGED restoreVars
    /\ UNCHANGED fnVars

\* lines 551-566: hmac.stdin.close(), hmac.wait() (its exit code is not
\* looked at), the .hmac file is written and closed, the pipe is closed
BHmacClose ==
    /\ b_pc = "hmac_close"
    /\ \E st \in {"exit0", "exit1"} :
          proc' = [proc EXCEPT !.hmac = IF @ = "alive" THEN st ELSE @]
    /\ files' = files \cup {b_loc.chunkfile \o DotHmac}
    /\ b_pc' = "put_hmac"
    /\ UNCHANGED <<b_args, b_error, b_loc, b_fx, tarPhase, openW, to_send, sent_log,
                   send_pc, send_cur>>
    /\ UNCHANGED <<inData, inClosed, wbf_pc, wbf_ret, wbf_obs, wbf_failed>>
    /\ UNCHANGED restoreVars
    /\ Track([f_loc EXCEPT !.hmac_file = [over |-> f_loc.stdin,
                                               ok |-> proc'.hmac = "exit0"]], f_ret)

\* line 569
BPutHmac ==
    /\ b_pc = "put_hmac"
    /\ CanPut
    /\ Put(b_loc.chunkfile \o DotHmac)
    /\ b_pc' = "poll_tar"
    /\ UNCHANGED <<b_args, b_error, b_loc, b_fx, tarPhase, files, openW, send_pc, send_cur>>
    /\ UNCHANGED wbfVars
    /\ UNCHANGED restoreVars
    /\ Track(f_loc, Append(f_ret, [chunk |-> b_loc.chunkfile,
                                    bytes |-> f_loc.target,
                                    stdin |-> f_loc.stdin,
                                    hmac_file |-> f_loc.hmac_file]))

\* lines 571-581: tar_sparse still runs: a newline releases the next volume
\* and the chunk loop goes on; else the entry is done
BPollTar ==
    /\ b_pc = "poll_tar"
    /\ IF proc.addproc = "alive"
       THEN /\ tarPhase' = IF tarPhase = "boundary" THEN "opening" ELSE tarPhase
            /\ b_loc' = [b_loc EXCEPT !.run_error = "paused"]
            /\ b_pc' = "open_pipe"
       ELSE /\ b_loc' = [b_loc EXCEPT !.entry = @ + 1]
            /\ b_pc' = "next_entry"
            /\ UNCHANGED tarPhase
    /\ UNCHANGED <<b_args, b_error, b_fx, files, openW, to_send, sent_log, send_pc, send_cur>>
    /\ UNCHANGED wbfVars
    /\ UNCHANGED restoreVars
    /\ UNCHANGED fnVars

\* line 583
BPutFinished ==
    /\ b_pc = "put_finished"
    /\ CanPut
    /\ Put(FINISHED)
    /\ b_pc' = "join"
    /\ UNCHANGED <<b_args, b_error, b_loc, b_fx, tarPhase, files, openW, send_pc, send_cur>>
    /\ UNCHANGED wbfVars
    /\ UNCHANGED restoreVars
    /\ UNCHANGED fnVars

\* lines 584-587: send_proc.join(), then its exit code
BJoin ==
    /\ b_pc = "join"
    /\ send_pc \in {"done", "failed", "terminated"}
    /\ IF send_pc = "done"
       THEN b_pc' = "finish" /\ UNCHANGED b_error
       ELSE Raise("error in the sending process")
    /\ UNCHANGED <<b_args, b_loc, b_fx, tarPhase, files, openW, to_send, sent_log,
                   send_pc, send_cur>>
    /\ UNCHANGED wbfVars
    /\ UNCHANGED restoreVars
    /\ UNCHANGED fnVars

\* lines 589-595: shutil.rmtree(backup_tmpdir), normal return
BFinish ==
    /\ b_pc = "finish"
    /\ b_fx' = [b_fx EXCEPT !.backup_tmpdir = FALSE, !.backup_pipe = FALSE]
    /\ files' = {}
    /\ b_pc' = "done"
    /\ UNCHANGED <<b_args, b_error, b_loc, tarPhase, openW, to_send, sent_log,
                   send_pc, send_cur>>
    /\ UNCHANGED wbfVars
    /\ UNCHANGED restoreVars
    /\ UNCHANGED fnVars

\* ---- the child processes of backup_do

\* tar_sparse writes into the named pipe (through the encryptor or compressor
\* when there is one); a pipe holds less than one read of buffer_size bytes
TarWrites ==
    /\ tarPhase = "writing"
    /\ ~inClosed
    /\ inData = 0
    /\ inData' = inData + 1
    /\ UNCHANGED <<proc, inClosed, wbf_pc, wbf_ret, wbf_obs, wbf_failed>>
    /\ UNCHANGED backupVars
    /\ UNCHANGED restoreVars
    /\ Tracking => f_loc.produced < MaxProduced
    /\ Track([f_loc EXCEPT !.produced = @ + 1], f_ret)

\* tar_sparse reaches the tape length: it closes the pipe and waits for a
\* newline on its stdin
TarVolumeEnd ==
    /\ tarPhase = "writing"
    /\ b_loc.i < MaxChunks
    /\ tarPhase' = "boundary"
    /\ inClosed' = TRUE
    /\ UNCHANGED <<proc, inData, wbf_pc, wbf_ret, wbf_obs, wbf_failed>>
    /\ UNCHANGED <<b_args, b_pc, b_error, b_loc, b_fx, files, openW, to_send, sent_log,
                   send_pc, send_cur>>
    /\ UNCHANGED restoreVars
    /\ UNCHANGED fnVars

\* tar_sparse has written the whole entry: it closes the pipe
TarFinishes ==
    /\ tarPhase = "writing"
    /\ tarPhase' = "closing"
    /\ inClosed' = TRUE
    /\ UNCHANGED <<proc, inData, wbf_pc, wbf_ret, wbf_obs, wbf_failed>>
    /\ UNCHANGED <<b_args, b_pc, b_error, b_loc, b_fx, files, openW, to_send, sent_log,
                   send_pc, send_cur>>
    /\ UNCHANGED restoreVars
    /\ UNCHANGED fnVars

\* tar_sparse exits: after its last volume with any code, or before with an error
TarExits ==
    /\ proc.addproc = "alive"
    /\ tarPhase \in {"opening", "writing", "boundary", "closing"}
    /\ \E st \in {"exit0", "exit1"} :
          /\ st = "exit0" => tarPhase = "closing"
          /\ proc' = [proc EXCEPT !.addproc = st]
    /\ tarPhase' = "exited"
    /\ inClosed' = (inClosed \/ tarPhase = "writing")
    /\ UNCHANGED <<inData, wbf_pc, wbf_ret, wbf_obs, wbf_failed>>
    /\ UNCHANGED <<b_args, b_pc, b_error, b_loc, b_fx, files, openW, to_send, sent_log,
                   send_pc, send_cur>>
    /\ UNCHANGED restoreVars
    /\ UNCHANGED fnVars

\* the encryptor or compressor exits: with 0 once its input has ended, or
\* with an error at any time (its output then ends)
StreamprocExits ==
    /\ b_pc = "wbf"
    /\ proc.streamproc = "alive"
    /\ \E st \in {"exit0", "exit1"} :
          /\ st = "exit0" => inClosed
          /\ proc' = [proc EXCEPT !.streamproc = st]
    /\ inClosed' = TRUE
    /\ UNCHANGED <<inData, wbf_pc, wbf_ret, wbf_obs, wbf_failed>>
    /\ UNCHANGED backupVars
    /\ UNCHANGED restoreVars
    /\ UNCHANGED fnVars

\* the digest tool fails while the chunk is copied
HmacFails ==
    /\ b_pc = "wbf"
    /\ proc.hmac = "alive"
    /\ proc' = [proc EXCEPT !.hmac = "exit1"]
    /\ UNCHANGED <<inData, inClosed, wbf_pc, wbf_ret, wbf_obs, wbf_failed>>
    /\ UNCHANGED backupVars
    /\ UNCHANGED restoreVars
    /\ UNCHANGED fnVars

\* the helper VM's process fails (backup_do looks at it only in the polls of
\* wait_backup_feedback, which take an exit with 0 like no exit)
VmprocFails ==
    /\ b_pc = "wbf"
    /\ proc.vmproc = "alive"
    /\ proc' = [proc EXCEPT !.vmproc = "exit1"]
    /\ UNCHANGED <<inData, inClosed, wbf_pc, wbf_ret, wbf_obs, wbf_failed>>
    /\ UNCHANGED backupVars
    /\ UNCHANGED restoreVars
    /\ UNCHANGED fnVars

\* ------------------------------------------------------------ SendWorker

\* line 329-331: the next filename; FINISHED ends the loop
SendGet ==
    /\ send_pc = "get"
    /\ to_send # <<>>
    /\ to_send' = Tail(to_send)
    /\ IF Head(to_send) = FINISHED
       THEN send_pc' = "done" /\ UNCHANGED send_cur
       ELSE send_pc' = "tar" /\ send_cur' = Head(to_send)
    /\ UNCHANGED <<b_args, b_pc, b_error, b_loc, b_fx, tarPhase, files, openW, sent_log>>
    /\ UNCHANGED wbfVars
    /\ UNCHANGED restoreVars
    /\ UNCHANGED fnVars

\* tar's exit code on a file: 0, 1 (a warning) or 2 (fatal; always when
\* the file is not there)
TarCodes(filename) == IF filename \in files THEN {0, 1, 2} ELSE {2}

\* any exit code but 0 aborts
SendFileMutant(code) ==
    IF code >= 1
    THEN send_pc' = "failed" /\ UNCHANGED files
    ELSE send_pc' = "get" /\ files' = files \ {send_cur}

\* lines 338-350 for one exit code of the outer tar
SendFile(code) ==
    IF code >= 2
    THEN send_pc' = "failed" /\ UNCHANGED files
    ELSE send_pc' = "get" /\ files' = files \ {send_cur}

\* lines 338-350: tar -cO of the file to the target, then os.remove.  When
\* SendWorker.run is followed alone, f_ret is the history of the files given
\* to tar and of tar's exit codes.
SendTar ==
    /\ send_pc = "tar"
    /\ \E code \in TarCodes(send_cur) :
          /\ SendFile(code)
          /\ f_ret' = IF f_pc = "run"
                      THEN Append(f_ret, [filename |-> send_cur, code |-> code])
                      ELSE f_ret
    /\ UNCHANGED <<b_args, b_pc, b_error, b_loc, b_fx, tarPhase, openW, to_send,
                   sent_log, send_cur>>
    /\ UNCHANGED wbfVars
    /\ UNCHANGED restoreVars
    /\ UNCHANGED <<f_args, f_pc, f_loc>>

\* backup_do called with any plan and any flags
InitBackup ==
    /\ b_args \in [files_to_backup : Plans, encrypted : BOOLEAN, compressed : BOOLEAN,
                   appvm : BOOLEAN, dir_exists : BOOLEAN]
    /\ b_args.appvm => b_args.dir_exists
    /\ b_pc = "check"
    /\ b_error = ""
    /\ b_loc = NoLocals
    /\ b_fx = NoEffects
    /\ tarPhase = "none"
    /\ files = {}
    /\ openW = {}
    /\ to_send = <<>>
    /\ sent_log = <<>>
    /\ send_pc = "none"
    /\ send_cur = <<>>
    /\ WbfIdle
    /\ RestoreIdle
    /\ FnIdle

NextBackup ==
    \/ BCheck \/ BTarget \/ BProgress \/ BTmpdir \/ BStartSend \/ BPutHeader
    \/ BNextEntry \/ BOpenPipe \/ WbfStep \/ BChunkClose \/ BPutChunk
    \/ BHmacClose \/ BPutHmac \/ BPollTar \/ BPutFinished \/ BJoin \/ BFinish
    \/ TarWrites \/ TarVolumeEnd \/ TarFinishes \/ TarExits
    \/ StreamprocExits \/ HmacFails \/ VmprocFails
    \/ SendGet \/ SendTar

SpecBackup == InitBackup /\ [][NextBackup]_vars

\* ------------------------------------------------- claims on the backup

IsPrefix(s, t) == Len(s) <= Len(t) /\ SubSeq(t, 1, Len(s)) = s

\* the chunk suffixes .000, .001, ... as the claim writes them
Suffix3 == [k \in 0..(MaxChunks + 1) |->
              <<".">> \o (IF k < 10 THEN <<"0", "0", Digit(k)>>
                          ELSE <<"0", Digit(k \div 10), Digit(k % 10)>>)]

\* <subdir><basename>.NNN, <subdir><basename>.NNN.hmac for NNN = 000 .. n-1
RECURSIVE ChunkPairs(_, _, _)
ChunkPairs(entry, k, n) ==
    IF k >= n THEN <<>>
    ELSE <<entry.subdir \o entry.path \o Suffix3[k],
           entry.subdir \o entry.path \o Suffix3[k] \o DotHmac>>
         \o ChunkPairs(entry, k + 1, n)

RECURSIVE PlanPairs(_, _, _)
PlanPairs(plan, counts, e) ==
    IF e > Len(plan) THEN <<>>
    ELSE ChunkPairs(plan[e], 0, counts[e]) \o PlanPairs(plan, counts, e + 1)

ExpectedLog(plan, counts) ==
    <<HEADER_FILENAME, HEADER_FILENAME \o DotHmac>>
        \o PlanPairs(plan, counts, 1) \o <<FINISHED>>

ChunkCounts(plan) == [DOMAIN plan -> 1..(MaxChunks + 1)]

\* C4: what backup_do has put on the send queue is at any time a prefix of
\* backup-header, backup-header.hmac, then per plan entry in plan order the
\* pairs <subdir><basename>.000, .000.hmac, .001, .001.hmac, ... without
\* gaps, then FINISHED; after a successful run it is the whole sequence.
SendOrder ==
    \E counts \in ChunkCounts(b_args.files_to_backup) :
        /\ IsPrefix(sent_log, ExpectedLog(b_args.files_to_backup, counts))
        /\ b_pc = "done" => sent_log = ExpectedLog(b_args.files_to_backup, counts)

SendOrderWitness ==
    /\ b_pc = "done"
    /\ Len(b_args.files_to_backup) = 2
    /\ Len(sent_log) >= 9

\* C5: a queued name is the name of a file that is written and closed, a
\* .hmac name is put after the name of its chunk, and the file SendWorker
\* sends and deletes is not open for writing in the control process.
SendsClosedFiles ==
    /\ \A k \in DOMAIN to_send :
          to_send[k] # FINISHED => to_send[k] \in files /\ to_send[k] \notin openW
    /\ \A k \in DOMAIN sent_log :
          EndsWith(sent_log[k], DotHmac) =>
              \E j \in 1..(k - 1) : sent_log[j] \o DotHmac = sent_log[k]
    /\ send_pc = "tar" => send_cur \in files /\ send_cur \notin openW

SendsClosedFilesWitness ==
    /\ send_pc = "tar"
    /\ send_cur \notin {HeaderFiles[1], HeaderFiles[2]}
    /\ ~EndsWith(send_cur, DotHmac)
    /\ openW # {}

\* C6: once the digest tool, the encryptor or compressor, or tar_sparse has
\* exited with a non-zero code during an entry, backup_do does not put
\* FINISHED on the queue and does not return normally.
StageFailureAborts ==
    (\E s \in {"hmac", "streamproc", "addproc"} : proc[s] = "exit1")
        => /\ \A k \in DOMAIN sent_log : sent_log[k] # FINISHED
           /\ b_pc # "done"

\* C10: backup_do with encrypted and compressed both set fails before any
\* side effect: no helper-VM process, no output file, no working directory
\* or named pipe, no send worker, nothing enqueued.
UnsupportedFailsFirst ==
    (b_args.encrypted /\ b_args.compressed) =>
        /\ b_pc \in {"check", "raised"}
        /\ b_pc = "raised" => b_error = "not supported"
        /\ proc.vmproc = "absent"
        /\ b_fx = NoEffects
        /\ files = {}
        /\ send_pc = "none"
        /\ sent_log = <<>>

UnsupportedFailsFirstWitness ==
    /\ b_args.encrypted /\ b_args.compressed /\ b_args.appvm
    /\ b_pc = "raised"

\* C20: when backup_do has ended, by return or by an exception, the
\* temporary directory it made and the named pipe in it are gone.
CleanupOnEnd ==
    b_pc \in {"done", "raised"} => ~b_fx.backup_tmpdir /\ ~b_fx.backup_pipe

\* ---- backup_do called directly, with a plan backup_prepare did not build

\* an entry whose subdir is non-empty and does not end in '/'
BadEntry == [path |-> <<"a">>, subdir |-> <<"v", "m", "1">>, size |-> 1]

\* lines 374-377: files_to_backup is whatever the caller passes
InitBackupDirect ==
    /\ b_args \in [files_to_backup : {<<BadEntry>>}, encrypted : BOOLEAN,
                   compressed : BOOLEAN, appvm : BOOLEAN, dir_exists : BOOLEAN]
    /\ b_args.appvm => b_args.dir_exists
    /\ b_pc = "check"
    /\ b_error = ""
    /\ b_loc = NoLocals
    /\ b_fx = NoEffects
    /\ tarPhase = "none"
    /\ files = {}
    /\ openW = {}
    /\ to_send = <<>>
    /\ sent_log = <<>>
    /\ send_pc = "none"
    /\ send_cur = <<>>
    /\ WbfIdle
    /\ RestoreIdle
    /\ FnIdle

SpecBackupDirect == InitBackupDirect /\ [][NextBackup]_vars

\* lines 308-310: len(subdir) == 0 or subdir[-1] == '/'
WellFormed(entry) == entry.subdir = <<>> \/ Last(entry.subdir) = "/"

\* C11: for a plan with an entry whose subdir is non-empty and does not end
\* in '/', backup_do starts no archive writer (tar_sparse) and no chunk of
\* the plan is put on the send queue.
SubdirRefused ==
    (\E k \in DOMAIN b_args.files_to_backup : ~WellFormed(b_args.files_to_backup[k]))
        => /\ tarPhase = "none"
           /\ \A k \in DOMAIN sent_log :
                 sent_log[k] \in {HeaderFiles[1], HeaderFiles[2]}


(***************************************************************************)
(* Restore: verify_hmac and load_hmac.  The text of an .hmac file and the  *)
(* output of the digest tool are sequences of characters.                  *)
(***************************************************************************)

Blank(c) == c \in {" ", "\n"}

\* str.strip()
RECURSIVE Strip(_)
Strip(s) ==
    IF s = <<>> THEN s
    ELSE IF Blank(s[1]) THEN Strip(Tail(s))
    ELSE IF Blank(Last(s)) THEN Strip(SubSeq(s, 1, Len(s) - 1))
    ELSE s

\* str.split("=")
RECURSIVE SplitEq(_)
SplitEq(s) ==
    IF \A k \in DOMAIN s : s[k] # "="
    THEN <<s>>
    ELSE LET k == CHOOSE j \in DOMAIN s : s[j] = "=" /\ \A m \in 1..(j - 1) : s[m] # "="
         IN  <<SubSeq(s, 1, k - 1)>> \o SplitEq(SubSeq(s, k + 1, Len(s)))

\* lines 1136-1143
load_hmac(text) ==
    LET parts == SplitEq(Strip(text))
    IN  IF Len(parts) > 1
        THEN [raised |-> FALSE, hmac |-> Strip(parts[2])]
        ELSE [raised |-> TRUE, hmac |-> <<>>]

\* line 44
DEFAULT_HMAC_ALGORITHM == "SHA1"

\* the digests "openssl list-message-digest-algorithms" enumerates
Enumerated == <<"SHA1", "SHA512">>

Algos == {Enumerated[k] : k \in DOMAIN Enumerated}

DefaultOnlyMutant(hmac_algorithm) == <<hmac_algorithm>>

\* lines 882-892: the caller's default first, then every enumerated digest
get_supported_hmac_algo(hmac_algorithm) == <<hmac_algorithm>> \o Enumerated

\* The keyed digest of a file under an algorithm, in hexadecimal: one value
\* per algorithm and content.  Content is "authentic" (written by a backup
\* made with the passphrase) or "tampered".
Hex(algorithm, data) ==
    IF data = "authentic"
    THEN (IF algorithm = "SHA1" THEN <<"a">> ELSE <<"b">>)
    ELSE (IF algorithm = "SHA1" THEN <<"c">> ELSE <<"d">>)

\* line 683: what "openssl dgst -<algorithm> -hmac <passphrase>" prints
DigestOutput(algorithm, data) ==
    <<"(", "s", ")", "=", " ">> \o Hex(algorithm, data) \o <<"\n">>

\* What an .hmac file of the backup source may hold.  The source does not
\* know the passphrase: it can replay the authenticators of authentic files
\* and write anything else, only not the keyed digest of content it made up.
HmacTexts ==
    {DigestOutput(a, "authentic") : a \in Algos}
    \cup { <<"(", "s", ")", "=", " ", "\n">>,                \* empty authenticator
           <<"(", "s", ")", " ", "a", "\n">>,                \* no '='
           <<"(", "s", ")", "=", " ", "e", "\n">>,           \* another digest
           <<"(", "s", ")", "=", " ", "a", " ", "=", "e">> } \* a second '='

HmacComparesMutant(hmac, hmac_stdout) == TRUE

\* line 696: len(hmac) > 0 and load_hmac(hmac_stdout) == hmac
HmacCompares(hmac, hmac_stdout) ==
    Len(hmac) > 0 /\ load_hmac(hmac_stdout).hmac = hmac

NameCheckMutant(filename, hmacfile) == TRUE

\* line 678
NameCheck(filename, hmacfile) == hmacfile = filename \o DotHmac

\* lines 674-707.  ret is "True" or the exception raised; started tells
\* whether the digest tool was started on the file, unlinked whether the
\* .hmac file was removed.
verify_hmac(filename, hmacfile, algorithm, data, text, present) ==
    IF ~NameCheck(filename, hmacfile)
    THEN [ret |-> "QubesException", started |-> FALSE, unlinked |-> FALSE]
    ELSE IF filename \notin present
    THEN [ret |-> "IOError", started |-> FALSE, unlinked |-> FALSE]
    ELSE IF hmacfile \notin present
    THEN [ret |-> "IOError", started |-> TRUE, unlinked |-> FALSE]
    ELSE IF load_hmac(text).raised
    THEN [ret |-> "QubesException", started |-> TRUE, unlinked |-> FALSE]
    ELSE IF HmacCompares(load_hmac(text).hmac, DigestOutput(algorithm, data))
    THEN [ret |-> "True", started |-> TRUE, unlinked |-> TRUE]
    ELSE [ret |-> "QubesException", started |-> TRUE, unlinked |-> FALSE]

(***************************************************************************)
(* restore_vm_dirs, lines 910-1120: the control thread.                    *)
(***************************************************************************)

\* the chunk of qubes.xml, a first and a further chunk of a selected VM
QubesXml == <<"q", "u", "b", "e", "s", ".", "x", "m", "l", ".", "0", "0", "0">>

Chunk0 == <<"v", "m", "1", "/", "a", ".", "0", "0", "0">>

Chunk1 == <<"v", "m", "1", "/", "a", ".", "0", "0", "1">>

EOFLine == <<"E", "O", "F">>

ERROR == <<"E", "R", "R", "O", "R">>

RestoreNames == {HEADER_FILENAME, QubesXml, Chunk0, Chunk1}

\* The names of the archive: when restore_vm_dirs is followed on another
\* archive than the usual one, f_args holds the names of that archive
Announced == IF f_pc \in {"restore", "hostile"} THEN f_args.names ELSE RestoreNames

\* What the demultiplexer may print on filelist_pipe where the restore
\* expects the name of a chunk: the source is not trusted, any of the names
\* may come at any such place; '' is the end of the stream.
ChunkLines == Announced \cup {<<>>, EOFLine}

\* a name that is not filename + ".hmac"
OtherHmac(filename) ==
    IF filename = QubesXml THEN Chunk0 \o DotHmac ELSE QubesXml \o DotHmac

\* What it may print where the restore expects the name of the hmac file of
\* filename: that name, another one, or the end of the stream
\* (from a hostile archive, f_pc = "hostile", also the name of any chunk)
HmacLines(filename) ==
    {filename \o DotHmac, OtherHmac(filename), <<>>, EOFLine}
       \cup (IF f_pc = "hostile" THEN Announced ELSE {})

\* lines 1168-1173 and 1561-1577: the filters restore_vm_dirs is called with
extract_filter(appvm) ==
    IF appvm
    THEN <<HEADER_FILENAME, QubesXml>>
    ELSE <<HEADER_FILENAME, HEADER_FILENAME \o DotHmac, QubesXml, QubesXml \o DotHmac>>

SelectedDirs == << <<"v", "m", "1">> >>

\* os.path.basename
RECURSIVE Basename(_)
Basename(path) ==
    IF \A k \in DOMAIN path : path[k] # "/"
    THEN path
    ELSE Basename(Tail(path))

\* lines 948 and 979: vms_dirs and vms_dirs[0] == HEADER_FILENAME
HeaderWanted == r_args.vms_dirs # <<>> /\ r_args.vms_dirs[1] = HEADER_FILENAME

\* "not filename or filename == 'EOF'"
NoName(name) == name = <<>> \/ name = EOFLine

\* line 1077: any(map(lambda x: filename.startswith(x), vms_dirs))
Selected(filename) ==
    \E k \in DOMAIN r_args.vms_dirs : StartsWith(filename, r_args.vms_dirs[k])

\* what parse_backup_header may return for an authentic header: each
\* recognized key is declared or absent
HeaderDatas ==
    [hmac_algorithm : Algos \cup {"absent"}, encrypted : {"True", "False", "absent"},
     compressed : {"True", "False", "absent"},
     crypto_algorithm : {DEFAULT_CRYPTO_ALGORITHM, "aes-128-cbc", "absent"}]

\* When restore_vm_dirs is followed on a given list of names, f_args holds
\* the list: its lines, then the line EOF if eof is set, then the end
Printed(k) ==
    IF k <= Len(f_args.stream) THEN f_args.stream[k]
    ELSE IF k = Len(f_args.stream) + 1 /\ f_args.eof THEN EOFLine
    ELSE <<>>

\* filelist_pipe.readline().strip(): the next name the demultiplexer printed;
\* the file of that name is in restore_tmpdir by the time the name is used
ReadLine(name, expected) ==
    /\ name \in expected
    /\ (ended \/ lines >= MaxLines) => name = <<>>
    /\ f_pc = "stream" => name = Printed(lines + 1)
    /\ lines' = IF lines < MaxLines THEN lines + 1 ELSE lines
    /\ ended' = (ended \/ name = <<>>)
    /\ disk' = IF NoName(name) THEN disk ELSE disk \cup {name}

\* an exception outside the try block of lines 1050-1104
RaiseRestore(msg) == r_pc' = "raised" /\ r_error' = msg

\* the exception goes on with nothing put on the queue
RaiseInTryMutant(msg, queue, log) ==
    /\ r_pc' = "join_error"
    /\ r_error' = msg
    /\ r_loc' = NoRestoreLocals
    /\ to_extract' = queue
    /\ put_log' = log

\* lines 1102-1103: an exception inside it: "ERROR" is put on the queue
RaiseInTry(msg, queue, log) ==
    /\ r_pc' = "join_error"
    /\ r_error' = msg
    /\ r_loc' = NoRestoreLocals
    /\ to_extract' = Append(queue, ERROR)
    /\ put_log' = Append(log, ERROR)

\* to_extract.put(name): the queue is unbounded
PutExtract(name) ==
    /\ to_extract' = Append(to_extract, name)
    /\ put_log' = Append(put_log, name)

\* The record of a verify_hmac call: whether the names matched, whether the
\* file was authentic, whether the text of the .hmac file has an
\* authenticator, a non-empty one, the one the digest tool computes; what
\* the call returned or raised and did; retry tells that verify_hmac has
\* raised for the same two files under another algorithm before; algorithm
\* is the one the call was given
Verdict(header, filename, hmacfile, algorithm, data, text, res) ==
    [called |-> TRUE, header |-> header, retry |-> (header /\ r_loc.algo > 1),
     match |-> (hmacfile = filename \o DotHmac),
     authentic |-> (data = "authentic"), algorithm |-> algorithm,
     parsed |-> ~load_hmac(text).raised,
     nonempty |-> (load_hmac(text).hmac # <<>>),
     equal |-> (load_hmac(text).hmac = load_hmac(DigestOutput(algorithm, data)).hmac),
     ret |-> res.ret, started |-> res.started, unlinked |-> res.unlinked,
     nput |-> Len(put_log)]

workerVars == <<x_pc, x_cur, x_opts, fed>>

\* lines 915-976: the demultiplexer (and the VM process) is started
RStart ==
    /\ r_pc = "start"
    /\ r_pc' = IF HeaderWanted THEN "hdr_name" ELSE "start_worker"
    /\ UNCHANGED <<r_args, r_error, r_loc, lines, ended, disk, to_extract, verified,
                   put_log, v_last>>
    /\ UNCHANGED <<workerVars, wbfVars, backupVars>>
    /\ UNCHANGED fnVars

\* line 980
RHeaderName ==
    /\ r_pc = "hdr_name"
    /\ \E name \in ChunkLines :
          /\ ReadLine(name, ChunkLines)
          /\ r_loc' = [r_loc EXCEPT !.filename = name]
    /\ r_pc' = "hdr_hmac"
    /\ UNCHANGED <<r_args, r_error, to_extract, verified, put_log, v_last>>
    /\ UNCHANGED <<workerVars, wbfVars, backupVars>>
    /\ UNCHANGED fnVars

\* line 981
RHeaderHmac ==
    /\ r_pc = "hdr_hmac"
    /\ \E name \in HmacLines(r_loc.filename) :
          /\ ReadLine(name, HmacLines(r_loc.filename))
          /\ r_loc' = [r_loc EXCEPT !.hmacfile = name]
    /\ r_pc' = "hdr_next"
    /\ UNCHANGED <<r_args, r_error, to_extract, verified, put_log, v_last>>
    /\ UNCHANGED <<workerVars, wbfVars, backupVars>>
    /\ UNCHANGED fnVars

\* lines 982-999: the third name is read ahead; without a header and its
\* hmac the restore ends.  data and text are what the two files hold (they
\* are not read when the names do not match).
RHeaderNext ==
    /\ r_pc = "hdr_next"
    /\ \E name \in ChunkLines, data \in {"authentic", "tampered"}, text \in HmacTexts :
          /\ ReadLine(name, ChunkLines)
          /\ ~NameCheck(r_loc.filename, r_loc.hmacfile)
                => data = "authentic" /\ text = DigestOutput(DEFAULT_HMAC_ALGORITHM, data)
          /\ IF NoName(r_loc.filename) \/ NoName(r_loc.hmacfile)
             THEN /\ RaiseRestore("Premature end of archive")
                  /\ r_loc' = [r_loc EXCEPT !.nextfile = name, !.has_next = TRUE]
             ELSE /\ r_pc' = "hdr_verify"
                  /\ r_loc' = [r_loc EXCEPT !.nextfile = name, !.has_next = TRUE,
                                            !.algo = 1, !.data = data, !.text = text]
                  /\ UNCHANGED r_error
    /\ UNCHANGED <<r_args, to_extract, verified, put_log, v_last>>
    /\ UNCHANGED <<workerVars, wbfVars, backupVars>>
    /\ UNCHANGED fnVars

\* lines 1000-1013: one turn of the loop over get_supported_hmac_algo.  A
\* QubesException of verify_hmac is swallowed and the next algorithm tried.
RHeaderVerify ==
    /\ r_pc = "hdr_verify"
    /\ LET algos == get_supported_hmac_algo(r_args.hmac_algorithm)
           hmac_algo == algos[r_loc.algo]
           res == verify_hmac(r_loc.filename, r_loc.hmacfile, hmac_algo,
                              r_loc.data, r_loc.text, disk)
       IN  /\ v_last' = Verdict(TRUE, r_loc.filename, r_loc.hmacfile, hmac_algo,
                                r_loc.data, r_loc.text, res)
           /\ disk' = IF res.unlinked THEN disk \ {r_loc.hmacfile} ELSE disk
           /\ IF res.ret = "True"
              THEN /\ verified' = verified \cup {r_loc.filename}
                   /\ r_loc' = [r_loc EXCEPT !.hmac_algorithm = hmac_algo]
                   /\ r_pc' = "hdr_parse"
                   /\ UNCHANGED r_error
              ELSE IF res.ret = "QubesException"
              THEN IF r_loc.algo < Len(algos)
                   THEN /\ r_loc' = [r_loc EXCEPT !.algo = @ + 1]
                        /\ UNCHANGED <<r_pc, r_error, verified>>
                   ELSE /\ RaiseRestore("Corrupted backup header")
                        /\ UNCHANGED <<r_loc, verified>>
              ELSE /\ RaiseRestore(res.ret)
                   /\ UNCHANGED <<r_loc, verified>>
    /\ UNCHANGED <<r_args, lines, ended, to_extract, put_log>>
    /\ UNCHANGED <<workerVars, wbfVars, backupVars>>
    /\ UNCHANGED fnVars

\* the header's values are not taken over
AdoptNothingMutant(loc, header_data) ==
    [loc EXCEPT !.has_header = TRUE, !.header_data = header_data]

\* lines 1015-1023: the declared fields override the values held so far
Adopt(loc, header_data) ==
    [loc EXCEPT !.has_header = TRUE,
                !.header_data = header_data,
                !.crypto_algorithm = IF header_data.crypto_algorithm # "absent"
                                     THEN header_data.crypto_algorithm ELSE @,
                !.hmac_algorithm = IF header_data.hmac_algorithm # "absent"
                                   THEN header_data.hmac_algorithm ELSE @,
                !.encrypted = IF header_data.encrypted # "absent"
                              THEN header_data.encrypted = "True" ELSE @,
                !.compressed = IF header_data.compressed # "absent"
                               THEN header_data.compressed = "True" ELSE @]

\* lines 1014-1035: a verified backup-header is parsed and removed; a
\* verified file of another name is passed to ExtractWorker
RHeaderParse ==
    /\ r_pc = "hdr_parse"
    /\ IF Basename(r_loc.filename) = HEADER_FILENAME
       THEN \E valid \in BOOLEAN, header_data \in HeaderDatas :
               IF valid
               THEN /\ r_loc' = Adopt([r_loc EXCEPT !.data = "", !.text = <<>>], header_data)
                    /\ disk' = disk \ {r_loc.filename}
                    /\ r_pc' = "start_worker"
                    /\ UNCHANGED <<r_error, to_extract, put_log>>
               ELSE /\ header_data = NoHeader
                    /\ RaiseRestore("Invalid backup header")
                    /\ UNCHANGED <<r_loc, disk, to_extract, put_log>>
       ELSE /\ PutExtract(r_loc.filename)
            /\ r_loc' = [r_loc EXCEPT !.expect_tar_error = ~r_args.appvm,
                                      !.data = "", !.text = <<>>]
            /\ r_pc' = "start_worker"
            /\ UNCHANGED <<r_error, disk>>
    /\ UNCHANGED <<r_args, lines, ended, verified, v_last>>
    /\ UNCHANGED <<workerVars, wbfVars, backupVars>>
    /\ UNCHANGED fnVars

\* lines 1037-1051: ExtractWorker is created with the values held now and
\* started; filename = None; header_data is not read again
RStartWorker ==
    /\ r_pc = "start_worker"
    /\ x_pc' = "get"
    /\ x_opts' = [encrypted |-> r_loc.encrypted, compressed |-> r_loc.compressed,
                  crypto_algorithm |-> r_loc.crypto_algorithm]
    /\ r_loc' = [r_loc EXCEPT !.filename = <<>>, !.header_data = NoHeader]
    /\ r_pc' = "loop_name"
    /\ UNCHANGED <<r_args, r_error, lines, ended, disk, to_extract, verified,
                   put_log, v_last, x_cur, fed>>
    /\ UNCHANGED <<wbfVars, backupVars>>
    /\ UNCHANGED fnVars

\* lines 1053-1062: the name read ahead, if there is one, else the next line
RLoopName ==
    /\ r_pc = "loop_name"
    /\ \E name \in ChunkLines :
          /\ IF r_loc.has_next
             THEN name = r_loc.nextfile /\ UNCHANGED <<lines, ended, disk>>
             ELSE ReadLine(name, ChunkLines)
          /\ r_loc' = [r_loc EXCEPT !.filename = name]
          /\ r_pc' = IF NoName(name) THEN "after_loop" ELSE "loop_hmac"
    /\ UNCHANGED <<r_args, r_error, to_extract, verified, put_log, v_last>>
    /\ UNCHANGED <<workerVars, wbfVars, backupVars>>
    /\ UNCHANGED fnVars

\* lines 1064 and 1072-1075
RLoopHmac ==
    /\ r_pc = "loop_hmac"
    /\ \E name \in HmacLines(r_loc.filename) :
          /\ ReadLine(name, HmacLines(r_loc.filename))
          /\ r_loc' = [r_loc EXCEPT !.hmacfile = name]
          /\ r_pc' = IF ~r_args.appvm THEN "loop_next"
                     ELSE IF NoName(name) THEN "after_loop" ELSE "filter"
    /\ UNCHANGED <<r_args, r_error, to_extract, verified, put_log, v_last>>
    /\ UNCHANGED <<workerVars, wbfVars, backupVars>>
    /\ UNCHANGED fnVars

\* lines 1068-1075: reading the archive directly, the next name is read ahead
RLoopNext ==
    /\ r_pc = "loop_next"
    /\ \E name \in ChunkLines :
          /\ ReadLine(name, ChunkLines)
          /\ r_loc' = [r_loc EXCEPT !.nextfile = name, !.has_next = TRUE]
    /\ r_pc' = IF NoName(r_loc.hmacfile) THEN "after_loop" ELSE "filter"
    /\ UNCHANGED <<r_args, r_error, to_extract, verified, put_log, v_last>>
    /\ UNCHANGED <<workerVars, wbfVars, backupVars>>
    /\ UNCHANGED fnVars

\* lines 1077-1082: a file of no selected directory is removed with the
\* file named as its hmac
RFilter ==
    /\ r_pc = "filter"
    /\ IF Selected(r_loc.filename)
       THEN r_pc' = "verify" /\ UNCHANGED <<r_error, r_loc, disk, to_extract, put_log>>
       ELSE IF r_loc.filename \notin disk
       THEN RaiseInTry("OSError", to_extract, put_log) /\ UNCHANGED disk
       ELSE IF r_loc.hmacfile \notin disk \ {r_loc.filename}
       THEN RaiseInTry("OSError", to_extract, put_log) /\ disk' = disk \ {r_loc.filename}
       ELSE /\ disk' = disk \ {r_loc.filename, r_loc.hmacfile}
            /\ r_pc' = "loop_name"
            /\ UNCHANGED <<r_error, r_loc, to_extract, put_log>>
    /\ UNCHANGED <<r_args, lines, ended, verified, v_last>>
    /\ UNCHANGED <<workerVars, wbfVars, backupVars>>
    /\ UNCHANGED fnVars

PutVerifiedMutant(queue, filename, res) == Append(queue, filename)

\* lines 1084-1087: if verify_hmac(...): to_extract.put(...)
PutVerified(queue, filename, res) ==
    IF res.ret = "True" THEN Append(queue, filename) ELSE queue

\* lines 1084-1087: the chunk is verified with the adopted algorithm and put
\* on the queue; an exception of verify_hmac ends the loop
RVerify ==
    /\ r_pc = "verify"
    /\ \E data \in {"authentic", "tampered"}, text \in HmacTexts :
          /\ ~NameCheck(r_loc.filename, r_loc.hmacfile)
                => data = "authentic" /\ text = DigestOutput(DEFAULT_HMAC_ALGORITHM, data)
          /\ LET res == verify_hmac(r_loc.filename, r_loc.hmacfile, r_loc.hmac_algorithm,
                                    data, text, disk)
                 queue == PutVerified(to_extract, r_loc.filename, res)
                 log == PutVerified(put_log, r_loc.filename, res)
             IN  /\ v_last' = Verdict(FALSE, r_loc.filename, r_loc.hmacfile,
                                      r_loc.hmac_algorithm, data, text, res)
                 /\ disk' = IF res.unlinked THEN disk \ {r_loc.hmacfile} ELSE disk
                 /\ IF res.ret = "True"
                    THEN /\ verified' = verified \cup {r_loc.filename}
                         /\ to_extract' = queue
                         /\ put_log' = log
                         /\ r_pc' = "loop_name"
                         /\ UNCHANGED <<r_error, r_loc>>
                    ELSE /\ RaiseInTry(res.ret, queue, log)
                         /\ UNCHANGED verified
    /\ UNCHANGED <<r_args, lines, ended>>
    /\ UNCHANGED <<workerVars, wbfVars, backupVars>>
    /\ UNCHANGED fnVars

\* lines 1089-1101: the exit codes of the demultiplexer and of the VM
\* process, then the name the loop ended with
RAfterLoop ==
    /\ r_pc = "after_loop"
    /\ \E command \in {0, 2}, vmproc \in {0, 1} :
          /\ ~r_args.appvm => vmproc = 0
          /\ IF command # 0 /\ ~r_loc.expect_tar_error
             THEN RaiseInTry("unable to read the qubes backup file", to_extract, put_log)
             ELSE IF r_args.appvm /\ vmproc # 0
             THEN RaiseInTry("VM error", to_extract, put_log)
             ELSE IF ~NoName(r_loc.filename)
             THEN RaiseInTry("Premature end of archive", to_extract, put_log)
             ELSE /\ r_pc' = "put_finished"
                  /\ UNCHANGED <<r_error, r_loc, to_extract, put_log>>
    /\ UNCHANGED <<r_args, lines, ended, disk, verified, v_last>>
    /\ UNCHANGED <<workerVars, wbfVars, backupVars>>
    /\ UNCHANGED fnVars

\* lines 1104-1105: extract_proc.join(), then the exception goes on
RJoinError ==
    /\ r_pc = "join_error"
    /\ x_pc \in {"done", "failed"}
    /\ r_pc' = "raised"
    /\ UNCHANGED <<r_args, r_error, r_loc, lines, ended, disk, to_extract, verified,
                   put_log, v_last>>
    /\ UNCHANGED <<workerVars, wbfVars, backupVars>>
    /\ UNCHANGED fnVars

\* lines 1106-1107
RPutFinished ==
    /\ r_pc = "put_finished"
    /\ PutExtract(FINISHED)
    /\ r_pc' = "join"
    /\ UNCHANGED <<r_args, r_error, r_loc, lines, ended, disk, verified, v_last>>
    /\ UNCHANGED <<workerVars, wbfVars, backupVars>>
    /\ UNCHANGED fnVars

\* lines 1111-1120
RJoin ==
    /\ r_pc = "join"
    /\ x_pc \in {"done", "failed"}
    /\ IF x_pc = "failed"
       THEN RaiseRestore("unable to extract the qubes backup")
       ELSE r_pc' = "done" /\ UNCHANGED r_error
    /\ UNCHANGED <<r_args, r_loc, lines, ended, disk, to_extract, verified, put_log, v_last>>
    /\ UNCHANGED <<workerVars, wbfVars, backupVars>>
    /\ UNCHANGED fnVars

(***************************************************************************)
(* ExtractWorker, lines 710-880.                                           *)
(***************************************************************************)

ctlVars == <<r_args, r_pc, r_error, r_loc, lines, ended, verified, put_log, v_last>>

Sentinel(name) == name = FINISHED \/ name = ERROR

\* the exception ends the worker and its children are left as they are
WorkerFailsMutant ==
    /\ x_pc' = "failed"
    /\ proc' = proc
    /\ inData' = 0
    /\ inClosed' = FALSE
    /\ wbf_pc' = "idle"
    /\ wbf_ret' = "None"
    /\ wbf_obs' = NoObs
    /\ wbf_failed' = FALSE

\* lines 746-763: an exception ends the worker with a non-zero exit code,
\* its children are terminated
WorkerFails ==
    /\ x_pc' = "failed"
    /\ proc' = [s \in Stages |-> IF proc[s] = "alive" THEN "exit1" ELSE proc[s]]
    /\ inData' = 0
    /\ inClosed' = FALSE
    /\ wbf_pc' = "idle"
    /\ wbf_ret' = "None"
    /\ wbf_obs' = NoObs
    /\ wbf_failed' = FALSE

\* lines 773-775: self.queue.get()
XGet ==
    /\ x_pc = "get"
    /\ to_extract # <<>>
    /\ x_cur' = Head(to_extract)
    /\ to_extract' = Tail(to_extract)
    /\ x_pc' = IF Sentinel(Head(to_extract)) THEN "finish" ELSE "open"
    /\ UNCHANGED <<ctlVars, disk, x_opts, fed, wbfVars, backupVars>>
    /\ UNCHANGED fnVars

\* tar2_process.wait() of lines 782-783 and 867: the exit code of the inner
\* tar, which ends with 0 or not when it is still running
Tar2Codes ==
    IF proc.addproc = "alive" THEN {0, 1}
    ELSE IF proc.addproc = "exit0" THEN {0}
    ELSE {1}

Lowest(S) == CHOOSE n \in S : \A m \in S : n <= m

\* When ExtractWorker.run is followed alone, f_ret is the history of what the
\* worker did with its inner tars and its chunks, in the order of the code
Event(op, file, code) == [op |-> op, file |-> file, code |-> code]

\* line 762: self.error_callback(str(e)), the one call that is part of the
\* history in every run
ErrorReported == <<Event("error_callback", <<>>, 1)>>

Recorded(e) == f_pc = "extract" \/ e.op = "error_callback"

Did(events) ==
    /\ f_ret' = f_ret \o SelectSeq(events, Recorded)
    /\ UNCHANGED <<f_args, f_pc, f_loc>>

\* lines 780-805 for one exit code of the running inner tar: wait() on it
\* and Popen of the next one for a name ending in .000, a newline on the
\* stdin of the running one for any other name
ReaderCallsMutant(first, code) ==
    (IF first /\ proc.addproc # "absent" THEN <<Event("wait", <<>>, code)>> ELSE <<>>)
    \o (IF first /\ (proc.addproc = "absent" \/ code = 0)
        THEN <<Event("Popen", x_cur, 0)>> ELSE <<>>)
    \o (IF proc.addproc = "alive" THEN <<Event("newline", x_cur, 0)>> ELSE <<>>)

ReaderCalls(first, code) ==
    IF first
    THEN (IF proc.addproc # "absent" THEN <<Event("wait", <<>>, code)>> ELSE <<>>)
         \o (IF proc.addproc = "absent" \/ code = 0
             THEN <<Event("Popen", x_cur, 0)>> ELSE <<>>)
    ELSE IF proc.addproc = "alive" THEN <<Event("newline", x_cur, 0)>> ELSE <<>>

ReaderFailedMutant(first, code) == FALSE

\* lines 782-786: `if self.tar2_process != None: if self.tar2_process.wait() != 0`
ReaderFailed(first, code) == first /\ proc.addproc # "absent" /\ code # 0

NoReaderMutant(first) == FALSE

\* lines 800-804: for a name that does not end in .000 the newline is
\* written to self.tar2_process.stdin: with tar2_process None this is an
\* AttributeError, with an inner tar that has ended a broken pipe
NoReader(first) == ~first /\ proc.addproc # "alive"

\* lines 780-841: a name ending in .000 starts a new inner tar once the old
\* one has exited with 0, any other name releases the next volume to the
\* running one; the pipe to the inner tar and the chunk are opened, the
\* decryptor or the decompressor is started on the chunk, and
\* wait_backup_feedback is called
XOpen ==
    /\ x_pc = "open"
    /\ \E code \in Tar2Codes :
          LET first == EndsWith(x_cur, <<".", "0", "0", "0">>)
              filtered == x_opts.encrypted \/ x_opts.compressed
          IN  /\ ~(first /\ proc.addproc = "alive") => code = Lowest(Tar2Codes)
              /\ IF \/ ReaderFailed(first, code)
                    \/ NoReader(first)
                    \/ x_cur \notin disk
                 THEN WorkerFails /\ UNCHANGED fed
                      /\ Did(ReaderCalls(first, code) \o ErrorReported)
                 ELSE /\ Did(ReaderCalls(first, code) \o <<Event("feed", x_cur, 0)>>)
                      /\ fed' = Append(fed, x_cur)
                      /\ proc' = [proc EXCEPT !.addproc = "alive",
                                              !.streamproc = IF filtered THEN "alive"
                                                             ELSE "absent"]
                      /\ inData' = 1
                      /\ inClosed' = ~filtered
                      /\ wbf_pc' = "loop"
                      /\ wbf_ret' = "None"
                      /\ wbf_obs' = NoObs
                      /\ wbf_failed' = FALSE
                      /\ x_pc' = "wbf"
    /\ UNCHANGED <<ctlVars, disk, to_extract, x_cur, x_opts, backupVars>>

ProcessingFailedMutant == wbf_ret \notin {"", "streamproc"}

\* line 854: `if len(run_error)`: a stage was reported (for None, len raises)
ProcessingFailed == wbf_ret # ""

\* lines 845-861: the pipe is closed; a failed stage ends the worker
\* (len(None) is a TypeError); else the chunk is removed
XChunkDone ==
    /\ x_pc = "wbf"
    /\ wbf_pc = "returned"
    /\ IF ProcessingFailed \/ x_cur \notin disk
       THEN WorkerFails /\ UNCHANGED disk /\ Did(ErrorReported)
       ELSE /\ Did(<<Event("remove", x_cur, 0)>>)
            /\ disk' = disk \ {x_cur}
            /\ x_pc' = "get"
            /\ proc' = [proc EXCEPT !.streamproc = "absent"]
            /\ inData' = 0
            /\ inClosed' = FALSE
            /\ wbf_pc' = "idle"
            /\ wbf_ret' = "None"
            /\ wbf_obs' = NoObs
            /\ wbf_failed' = FALSE
    /\ UNCHANGED <<ctlVars, to_extract, x_cur, x_opts, fed, backupVars>>

\* lines 863-876: after a sentinel the inner tar is waited for (terminated
\* first after ERROR); it must have exited with 0
XFinish ==
    /\ x_pc = "finish"
    /\ \E code \in Tar2Codes :
          /\ (proc.addproc = "alive" /\ x_cur = ERROR) => code = 1
          /\ Did((IF proc.addproc # "absent" THEN <<Event("wait", <<>>, code)>> ELSE <<>>)
                 \o (IF proc.addproc # "absent" /\ code # 0 THEN ErrorReported ELSE <<>>))
          /\ IF proc.addproc # "absent" /\ code # 0
             THEN WorkerFails
             ELSE /\ x_pc' = "done"
                  /\ proc' = [proc EXCEPT !.addproc = "absent"]
                  /\ UNCHANGED <<inData, inClosed, wbf_pc, wbf_ret, wbf_obs, wbf_failed>>
    /\ UNCHANGED <<ctlVars, disk, to_extract, x_cur, x_opts, fed, backupVars>>

\* restore_vm_dirs called for the header or for the selected directories,
\* with any flags and any supported default algorithm
Init ==
    /\ r_args \in [appvm : BOOLEAN, vms_dirs : {extract_filter(TRUE), extract_filter(FALSE), SelectedDirs},
                   hmac_algorithm : Algos, encrypted : BOOLEAN, compressed : BOOLEAN,
                   crypto_algorithm : {DEFAULT_CRYPTO_ALGORITHM}]
    /\ r_args.vms_dirs \in {extract_filter(r_args.appvm), SelectedDirs}
    /\ r_pc = "start"
    /\ r_error = ""
    /\ r_loc = [NoRestoreLocals EXCEPT !.hmac_algorithm = r_args.hmac_algorithm,
                                       !.encrypted = r_args.encrypted,
                                       !.compressed = r_args.compressed,
                                       !.crypto_algorithm = r_args.crypto_algorithm]
    /\ lines = 0
    /\ ended = FALSE
    /\ disk = {}
    /\ to_extract = <<>>
    /\ verified = {}
    /\ put_log = <<>>
    /\ v_last = NoVerify
    /\ x_pc = "none"
    /\ x_cur = <<>>
    /\ x_opts = NoOpts
    /\ fed = <<>>
    /\ WbfIdle
    /\ BackupIdle
    /\ FnIdle

\* line 817 or 830: the decryptor or the decompressor ends: its output is
\* complete and it exits with 0, or it fails
FilterEnds ==
    /\ x_pc = "wbf"
    /\ wbf_pc = "loop"
    /\ proc.streamproc = "alive"
    /\ \E st \in {"exit0", "exit1"} : proc' = [proc EXCEPT !.streamproc = st]
    /\ inClosed' = TRUE
    /\ UNCHANGED <<inData, wbf_pc, wbf_ret, wbf_obs, wbf_failed>>
    /\ UNCHANGED <<restoreVars, backupVars>>
    /\ UNCHANGED fnVars

\* line 797: the inner tar fails while it is fed
Tar2Fails ==
    /\ x_pc = "wbf"
    /\ wbf_pc = "loop"
    /\ proc.addproc = "alive"
    /\ proc' = [proc EXCEPT !.addproc = "exit1"]
    /\ UNCHANGED <<inData, inClosed, wbf_pc, wbf_ret, wbf_obs, wbf_failed>>
    /\ UNCHANGED <<restoreVars, backupVars>>
    /\ UNCHANGED fnVars

Next ==
    \/ RStart \/ RHeaderName \/ RHeaderHmac \/ RHeaderNext \/ RHeaderVerify
    \/ RHeaderParse \/ RStartWorker \/ RLoopName \/ RLoopHmac \/ RLoopNext
    \/ RFilter \/ RVerify \/ RAfterLoop \/ RJoinError \/ RPutFinished
    \/ RJoin
    \/ XGet \/ XOpen \/ WbfStep \/ XChunkDone \/ XFinish
    \/ FilterEnds \/ Tar2Fails

Spec == Init /\ [][Next]_vars

(***************************************************************************)
(* Properties of the restore.                                              *)
(***************************************************************************)

NotSentinel(name) == ~Sentinel(name)

\* the chunk names put on to_extract so far
RealPuts == SelectSeq(put_log, NotSentinel)

\* the restore has ended with an exception or is about to, no chunk can be
\* enqueued any more
Aborting == r_pc \in {"join_error", "raised"}

\* C1: a name is put on to_extract only after verify_hmac has returned True
\* for it (the legacy path of the header phase included), ExtractWorker
\* opens only names it took from that queue, in the order they were put, so
\* every chunk fed to the decryptor, the decompressor or the inner tar has
\* been verified; and a file verify_hmac accepts is an authentic one.
HmacGate ==
    /\ \A k \in DOMAIN RealPuts : RealPuts[k] \in verified
    /\ IsPrefix(fed, RealPuts)
    /\ x_pc \in {"open", "wbf"} => x_cur \in {RealPuts[k] : k \in DOMAIN RealPuts}
    /\ \A k \in DOMAIN fed : fed[k] \in verified
    /\ v_last.ret = "True" => v_last.authentic

\* the legacy path: no header, qubes.xml.000 comes first, is verified, passed
\* to ExtractWorker and extracted
HmacGateWitness ==
    /\ HeaderWanted
    /\ ~r_loc.has_header
    /\ fed = <<QubesXml>>
    /\ r_pc = "done"

\* verify_hmac has raised for the two files of the last call
Raised(v) == v.called /\ (v.ret # "True" \/ v.retry)

\* C2 as stated: verify_hmac returns True only for a non-empty authenticator
\* equal to the recomputed one, the .hmac file is removed only then, and
\* once verify_hmac has raised for a file the restore cannot go on (it is
\* over, or still in the loop over the algorithms) and nothing is enqueued.
VerifyHmacFatal ==
    /\ v_last.ret = "True" => v_last.parsed /\ v_last.nonempty /\ v_last.equal
    /\ v_last.unlinked => v_last.ret = "True"
    /\ Raised(v_last) =>
          /\ Aborting \/ r_pc = "hdr_verify"
          /\ Len(RealPuts) = v_last.nput

\* C2, amended: as stated for the calls of the main loop; in the header
\* phase a QubesException of verify_hmac only moves on to the next
\* algorithm, and the restore is over when no algorithm is left.
VerifyHmacStrict ==
    /\ v_last.ret = "True" =>
          v_last.match /\ v_last.parsed /\ v_last.nonempty /\ v_last.equal
    /\ v_last.called => (v_last.unlinked <=> v_last.ret = "True")
    /\ v_last.called => v_last.ret \in {"True", "QubesException", "IOError"}
    /\ (v_last.called /\ v_last.ret # "True" /\ ~v_last.header) =>
          Aborting /\ Len(RealPuts) = v_last.nput
    /\ (v_last.called /\ v_last.ret # "True" /\ v_last.header) =>
          /\ r_pc \in {"hdr_verify", "raised"}
          /\ RealPuts = <<>>
          /\ x_pc = "none"

\* the main loop ends on an authenticator that is not the recomputed one
VerifyHmacStrictWitness ==
    /\ v_last.called /\ ~v_last.header /\ v_last.match /\ v_last.started
    /\ v_last.parsed /\ v_last.nonempty /\ ~v_last.equal
    /\ v_last.ret = "QubesException"
    /\ v_last.nput = 1
    /\ r_pc = "raised"

\* C3: when the name announced as the hmac file is not the chunk's name
\* followed by ".hmac", verify_hmac raises before the digest tool is started
\* on the chunk, nothing is enqueued from then on and the restore cannot go
\* on: the main loop ends at once, the header phase after the same failure
\* under every algorithm.
NameMismatchAborts ==
    (v_last.called /\ ~v_last.match) =>
        /\ ~v_last.started
        /\ ~v_last.unlinked
        /\ v_last.ret = "QubesException"
        /\ Len(RealPuts) = v_last.nput
        /\ IF v_last.header THEN r_pc \in {"hdr_verify", "raised"} /\ x_pc = "none"
           ELSE Aborting

\* a second pair with a wrong hmac name, after a first chunk was enqueued
NameMismatchAbortsWitness ==
    /\ v_last.called /\ ~v_last.match /\ ~v_last.header
    /\ v_last.nput = 1
    /\ r_pc = "raised"

\* the header phase has verify_hmac accept the two files under the k-th
\* algorithm of the list
Verifies(k) ==
    LET algos == get_supported_hmac_algo(r_args.hmac_algorithm)
    IN  /\ NameCheck(r_loc.filename, r_loc.hmacfile)
        /\ ~load_hmac(r_loc.text).raised
        /\ load_hmac(r_loc.text).hmac # <<>>
        /\ load_hmac(r_loc.text).hmac = Hex(algos[k], r_loc.data)

\* the first file was authenticated by the backup side with algorithm X
AuthenticatedWith(X) ==
    /\ NameCheck(r_loc.filename, r_loc.hmacfile)
    /\ r_loc.data = "authentic"
    /\ r_loc.text = DigestOutput(X, "authentic")

\* C12: in the header phase the algorithms are tried in the order default,
\* then the enumerated ones, up to the first that verifies, which is
\* adopted; a header authenticated with an enumerated algorithm is never
\* rejected, whatever the default; when none verifies the restore ends with
\* the corrupted-header error, without an extract worker and with nothing
\* enqueued.
HeaderAutodetect ==
    LET algos == get_supported_hmac_algo(r_args.hmac_algorithm)
    IN  /\ r_pc = "hdr_verify" =>
              /\ r_loc.algo \in DOMAIN algos
              /\ algos[1] = r_args.hmac_algorithm
              /\ \A X \in Algos : \E k \in 2..Len(algos) : algos[k] = X
              /\ \A j \in 1..(r_loc.algo - 1) : ~Verifies(j)
        /\ r_pc = "hdr_parse" =>
              /\ Verifies(r_loc.algo)
              /\ \A j \in 1..(r_loc.algo - 1) : ~Verifies(j)
              /\ r_loc.hmac_algorithm = algos[r_loc.algo]
              /\ x_pc = "none"
        /\ (r_pc = "raised" /\ r_error = "Corrupted backup header") =>
              /\ \A j \in DOMAIN algos : ~Verifies(j)
              /\ \A X \in Algos : ~AuthenticatedWith(X)
              /\ x_pc = "none"
              /\ put_log = <<>>
        /\ (r_pc \in {"hdr_verify", "hdr_parse"} /\ \E X \in Algos : AuthenticatedWith(X)) =>
              \E k \in DOMAIN algos : k >= r_loc.algo /\ Verifies(k)

\* the header was authenticated with SHA512, the caller's default is SHA1:
\* the header is accepted and SHA512 adopted
HeaderAutodetectWitness ==
    /\ r_pc = "hdr_parse"
    /\ r_loc.filename = HEADER_FILENAME
    /\ r_args.hmac_algorithm = "SHA1"
    /\ AuthenticatedWith("SHA512")
    /\ r_loc.hmac_algorithm = "SHA512"
    /\ r_loc.algo = 3

\* the value a header field leaves: the declared one, else the one kept
DeclaredOr(declared, kept) == IF declared # "absent" THEN declared ELSE kept

DeclaredOrFlag(declared, kept) == IF declared # "absent" THEN declared = "True" ELSE kept

\* the values restore_vm_dirs holds are the header's where declared, and
\* otherwise hmac for the algorithm and the caller's for the three others
ValuesAre(hmac) ==
    LET h == r_loc.header_data
    IN  /\ r_loc.hmac_algorithm = DeclaredOr(h.hmac_algorithm, hmac)
        /\ r_loc.crypto_algorithm = DeclaredOr(h.crypto_algorithm, r_args.crypto_algorithm)
        /\ r_loc.encrypted = DeclaredOrFlag(h.encrypted, r_args.encrypted)
        /\ r_loc.compressed = DeclaredOrFlag(h.compressed, r_args.compressed)

\* the worker runs with the values held, and the last chunk verification
\* was given the algorithm held
ValuesUsed ==
    r_loc # NoRestoreLocals =>
        /\ x_pc # "none" =>
              x_opts = [encrypted |-> r_loc.encrypted, compressed |-> r_loc.compressed,
                        crypto_algorithm |-> r_loc.crypto_algorithm]
        /\ (v_last.called /\ ~v_last.header) => v_last.algorithm = r_loc.hmac_algorithm

\* from the start of the worker on, the values held and the worker's do not
\* change while the run lasts
ValuesKept ==
    /\ (r_pc \notin {"start", "hdr_name", "hdr_hmac", "hdr_next", "hdr_verify", "hdr_parse"}
        /\ r_loc' # NoRestoreLocals) =>
            /\ r_loc'.hmac_algorithm = r_loc.hmac_algorithm
            /\ r_loc'.crypto_algorithm = r_loc.crypto_algorithm
            /\ r_loc'.encrypted = r_loc.encrypted
            /\ r_loc'.compressed = r_loc.compressed
    /\ x_pc # "none" => x_opts' = x_opts

\* C13 as stated: once the header is verified and parsed, each of encrypted,
\* compressed, hmac-algorithm and crypto-algorithm it declares replaces the
\* caller's value, an undeclared one keeps the caller's value, and the
\* extract worker and every later chunk verification use these values.
HeaderReplacesCaller ==
    /\ []((r_pc = "start_worker" /\ r_loc.has_header) => ValuesAre(r_args.hmac_algorithm))
    /\ []ValuesUsed
    /\ [][ValuesKept]_vars

\* C13: once the header is verified and parsed, each of encrypted,
\* compressed, hmac-algorithm and crypto-algorithm it declares replaces the
\* caller's value; undeclared, encrypted, compressed and crypto-algorithm
\* keep the caller's value and hmac-algorithm is the algorithm the header
\* was verified with; the extract worker and every later chunk verification
\* use these values.
HeaderReplaces ==
    /\ []((r_pc = "start_worker" /\ r_loc.has_header) =>
            ValuesAre(get_supported_hmac_algo(r_args.hmac_algorithm)[r_loc.algo]))
    /\ []ValuesUsed
    /\ [][ValuesKept]_vars

\* a header declared other values than the caller's; the worker runs with
\* them and a chunk has been verified with the declared algorithm
HeaderReplacesWitness ==
    /\ r_loc.has_header
    /\ x_pc = "wbf"
    /\ x_opts.encrypted # r_args.encrypted
    /\ x_opts.compressed # r_args.compressed
    /\ x_opts.crypto_algorithm # r_args.crypto_algorithm
    /\ v_last.called /\ ~v_last.header /\ v_last.ret = "True"
    /\ v_last.algorithm # r_args.hmac_algorithm

(***************************************************************************)
(* The header file: prepare_backup_header writes it, parse_backup_header   *)
(* reads it.  Texts are sequences of characters.                           *)
(***************************************************************************)

MaxHeaderLines == 2

\* lines 50-55; bool_options holds the keys of the two flags
BackupHeader ==
    [encrypted |-> <<"e", "n", "c", "r", "y", "p", "t", "e", "d">>, compressed |-> <<"c", "o", "m", "p", "r", "e", "s", "s", "e", "d">>,
     crypto_algorithm |-> <<"c", "r", "y", "p", "t", "o", "-", "a", "l", "g", "o", "r", "i", "t", "h", "m">>, hmac_algorithm |-> <<"h", "m", "a", "c", "-", "a", "l", "g", "o", "r", "i", "t", "h", "m">>,
     bool_options |-> {<<"e", "n", "c", "r", "y", "p", "t", "e", "d">>, <<"c", "o", "m", "p", "r", "e", "s", "s", "e", "d">>}]

\* BackupHeader.__module__: the name backup.py is imported under
ModuleNames == {<<"q", "u", "b", "e", "s", ".", "b", "a", "c", "k", "u", "p">>, <<"_", "_", "m", "a", "i", "n", "_", "_">>}

\* lines 902-903: the values of the attributes dir(BackupHeader) lists that
\* a string can be equal to: the four keys and __module__ (__doc__ is None,
\* bool_options is a list)
AttrValues(module) ==
    {BackupHeader.encrypted, BackupHeader.compressed, BackupHeader.crypto_algorithm,
     BackupHeader.hmac_algorithm, module}

\* str.count
Count(s, c) == Cardinality({k \in DOMAIN s : s[k] = c})

LowerMutant(c) == c

\* str.lower, one character
Lower(c) ==
    CASE c = "T" -> "t" [] c = "R" -> "r" [] c = "U" -> "u" [] c = "E" -> "e"
      [] c = "F" -> "f" [] c = "A" -> "a" [] c = "L" -> "l" [] c = "S" -> "s"
      [] c = "Y" -> "y" [] c = "N" -> "n" [] c = "O" -> "o" [] c = "H" -> "h"
      [] OTHER -> c

LowerSeq(s) == [k \in DOMAIN s |-> Lower(s[k])]

\* str(True), str(False)
Str(b) == IF b THEN <<"T", "r", "u", "e">> ELSE <<"F", "a", "l", "s", "e">>

\* line 905: ["1", "true", "yes"]
TrueValues == {<<"1">>, <<"t", "r", "u", "e">>, <<"y", "e", "s">>}

\* file.readlines(): the text cut after every newline
RECURSIVE ReadLines(_)
ReadLines(text) ==
    IF text = <<>> THEN <<>>
    ELSE IF \A k \in DOMAIN text : text[k] # "\n" THEN <<text>>
    ELSE LET k == CHOOSE j \in DOMAIN text :
                     text[j] = "\n" /\ \A m \in 1..(j - 1) : text[m] # "\n"
         IN  <<SubSeq(text, 1, k)>> \o ReadLines(SubSeq(text, k + 1, Len(text)))

\* header_data[key] = value: a dictionary is the set of its items; a flag
\* is held in flag, a string in text
Item(key, value) ==
    IF key \in BackupHeader.bool_options
    THEN [key |-> key, isbool |-> TRUE, flag |-> (LowerSeq(value) \in TrueValues),
          text |-> <<>>]
    ELSE [key |-> key, isbool |-> FALSE, flag |-> FALSE, text |-> value]

Store(header_data, key, value) ==
    {p \in header_data : p.key # key} \cup {Item(key, value)}

\* lines of header files a backup source may send
HeaderLines ==
    { <<"e", "n", "c", "r", "y", "p", "t", "e", "d", "=", "1", "\n">>,
      <<"e", "n", "c", "r", "y", "p", "t", "e", "d", "=", "T", "r", "u", "e", "\n">>,
      <<"e", "n", "c", "r", "y", "p", "t", "e", "d", "=", "Y", "E", "S", "\n">>,
      <<"e", "n", "c", "r", "y", "p", "t", "e", "d", "=", "0", "\n">>,
      <<"e", "n", "c", "r", "y", "p", "t", "e", "d", "=", " ", "1", "\n">>,
      <<"c", "o", "m", "p", "r", "e", "s", "s", "e", "d", "=", "n", "o", "\n">>,
      <<"h", "m", "a", "c", "-", "a", "l", "g", "o", "r", "i", "t", "h", "m", "=", "S", "H", "A", "1", "\n">>,
      <<"c", "r", "y", "p", "t", "o", "-", "a", "l", "g", "o", "r", "i", "t", "h", "m", "=", "x", "\n">>,
      <<"o", "t", "h", "e", "r", "=", "1", "\n">>,
      <<"e", "n", "c", "r", "y", "p", "t", "e", "d", " ", "=", "1", "\n">>,
      <<"e", "n", "c", "r", "y", "p", "t", "e", "d", "\n">>,
      <<"a", "=", "b", "=", "c", "\n">>,
      <<"\n">>,
      <<"q", "u", "b", "e", "s", ".", "b", "a", "c", "k", "u", "p", "=", "x", "\n">>,
      <<"c", "o", "m", "p", "r", "e", "s", "s", "e", "d", "=", "t", "r", "u", "e">> }

RECURSIVE HeaderTexts(_)
HeaderTexts(n) ==
    IF n = 0 THEN {<<>>}
    ELSE HeaderTexts(n - 1) \cup {t \o l : t \in HeaderTexts(n - 1), l \in HeaderLines}

\* identifiers of digest and cipher algorithms
HmacIdentifiers == {<<"S", "H", "A", "1">>, <<"S", "H", "A", "5", "1", "2">>}

CryptoIdentifiers == {<<"a", "e", "s", "-", "2", "5", "6", "-", "c", "b", "c">>, <<"a", "e", "s", "-", "1", "2", "8", "-", "c", "b", "c">>, <<>>}

NoFnLocals == [file |-> <<>>, lines |-> <<>>, header_data |-> {}, module |-> <<>>]

\* lines 355-372: the four lines are written, then the digest tool is run
\* over the file
PrepareHeader ==
    /\ f_pc = "prepare"
    /\ f_loc' = [f_loc EXCEPT !.file =
           BackupHeader.hmac_algorithm \o <<"=">> \o f_args.hmac_algorithm \o <<"\n">>
           \o BackupHeader.crypto_algorithm \o <<"=">> \o f_args.crypto_algorithm \o <<"\n">>
           \o BackupHeader.encrypted \o <<"=">> \o Str(f_args.encrypted) \o <<"\n">>
           \o BackupHeader.compressed \o <<"=">> \o Str(f_args.compressed) \o <<"\n">>]
    /\ \E code \in {0, 1} :
          IF code # 0
          THEN f_pc' = "raised" /\ f_ret' = "Failed to compute hmac of header file"
          ELSE f_pc' = "written" /\ f_ret' = <<HEADER_FILENAME, HEADER_FILENAME \o DotHmac>>
    /\ UNCHANGED f_args
    /\ UNCHANGED <<wbfVars, backupVars, restoreVars>>

\* lines 894-897: parse_backup_header opens the file and reads its lines
ParseOpen ==
    /\ f_pc \in {"written", "parse"}
    /\ f_loc' = [f_loc EXCEPT !.lines = ReadLines(f_loc.file), !.header_data = {}]
    /\ f_pc' = "line"
    /\ f_ret' = <<>>
    /\ UNCHANGED f_args
    /\ UNCHANGED <<wbfVars, backupVars, restoreVars>>

\* lines 897-907: one turn of the loop over the lines
ParseLine ==
    /\ f_pc = "line"
    /\ f_loc.lines # <<>>
    /\ LET line == Head(f_loc.lines)
       IN  IF Count(line, "=") # 1
           THEN /\ f_pc' = "raised"
                /\ f_ret' = "Invalid backup header"
                /\ UNCHANGED f_loc
           ELSE LET parts == SplitEq(Strip(line))
                    key == parts[1]
                    value == parts[2]
                IN  /\ f_loc' = [f_loc EXCEPT
                           !.lines = Tail(@),
                           !.header_data = IF key \in AttrValues(f_loc.module)
                                           THEN Store(@, key, value) ELSE @]
                    /\ UNCHANGED <<f_pc, f_ret>>
    /\ UNCHANGED f_args
    /\ UNCHANGED <<wbfVars, backupVars, restoreVars>>

\* line 908: return header_data
ParseReturn ==
    /\ f_pc = "line"
    /\ f_loc.lines = <<>>
    /\ f_pc' = "returned"
    /\ f_ret' = f_loc.header_data
    /\ UNCHANGED <<f_args, f_loc>>
    /\ UNCHANGED <<wbfVars, backupVars, restoreVars>>

\* prepare_backup_header is called with any identifiers and flags and the
\* file it wrote is parsed, or parse_backup_header is called on a file of a
\* backup source
InitHeader ==
    /\ \/ /\ f_pc = "prepare"
          /\ f_args \in [hmac_algorithm : HmacIdentifiers, crypto_algorithm : CryptoIdentifiers,
                         encrypted : BOOLEAN, compressed : BOOLEAN]
          /\ \E module \in ModuleNames : f_loc = [NoFnLocals EXCEPT !.module = module]
       \/ /\ f_pc = "parse"
          /\ f_args = [filename |-> HEADER_FILENAME]
          /\ \E module \in ModuleNames, text \in HeaderTexts(MaxHeaderLines) :
                f_loc = [NoFnLocals EXCEPT !.module = module, !.file = text]
    /\ f_ret = <<>>
    /\ WbfIdle
    /\ BackupIdle
    /\ RestoreIdle

NextHeader == PrepareHeader \/ ParseOpen \/ ParseLine \/ ParseReturn

SpecHeader == InitHeader /\ [][NextHeader]_vars

\* ------------------------------------------ claims on the header file

FourKeys ==
    {BackupHeader.encrypted, BackupHeader.compressed, BackupHeader.crypto_algorithm,
     BackupHeader.hmac_algorithm}

\* the place of the first '=' of a text with one
EqAt(s) == CHOOSE j \in DOMAIN s : s[j] = "=" /\ \A m \in 1..(j - 1) : s[m] # "="

KeyOf(line) == SubSeq(Strip(line), 1, EqAt(Strip(line)) - 1)

ValueOf(line) == SubSeq(Strip(line), EqAt(Strip(line)) + 1, Len(Strip(line)))

\* the file was given to parse_backup_header by a backup source
Parsed == "filename" \in DOMAIN f_args

\* C14: parse_backup_header fails on the whole file exactly when some line
\* has no '=' or more than one; otherwise a line whose key is none of
\* encrypted, compressed, crypto-algorithm, hmac-algorithm leaves no trace
\* in the record returned, each of the four keys is in the record exactly
\* when a line declares it, a flag is true exactly when its value is 1, true
\* or yes in any case, and an algorithm is the text after the '='.
ParseAsStated ==
    (Parsed /\ f_pc \in {"returned", "raised"}) =>
        LET ls == ReadLines(f_loc.file)
            Declares(K) == {k \in DOMAIN ls : KeyOf(ls[k]) = K}
            LastOf(K) == CHOOSE k \in Declares(K) : \A j \in Declares(K) : j <= k
        IN  /\ f_pc = "raised" <=> \E k \in DOMAIN ls : Count(ls[k], "=") # 1
            /\ f_pc = "returned" =>
                  /\ \A p \in f_ret : p.key \in FourKeys
                  /\ \A K \in FourKeys : (\E p \in f_ret : p.key = K) <=> Declares(K) # {}
                  /\ \A p \in f_ret : p.key \in FourKeys =>
                        IF p.key \in {BackupHeader.encrypted, BackupHeader.compressed}
                        THEN /\ p.isbool
                             /\ p.flag <=> LowerSeq(ValueOf(ls[LastOf(p.key)])) \in TrueValues
                        ELSE /\ ~p.isbool
                             /\ p.text = ValueOf(ls[LastOf(p.key)])

HeaderPhaseOver == HeaderWanted /\ r_pc = "start_worker"

\* C16 as stated: the stream gets past the header phase only if the first
\* two announced names are backup-header and backup-header.hmac.
HeaderNamesOnly ==
    HeaderPhaseOver =>
        /\ r_loc.filename = HEADER_FILENAME
        /\ r_loc.hmacfile = HEADER_FILENAME \o DotHmac

\* C16: the stream gets past the header phase only if the second announced
\* name is the first followed by .hmac and the pair has been verified; a
\* first file named backup-header is parsed and nothing is enqueued, a
\* first file of another name is enqueued for the extract worker as the
\* first chunk of a backup without header; no worker runs before that.
HeaderNames ==
    /\ HeaderPhaseOver =>
          /\ r_loc.hmacfile = r_loc.filename \o DotHmac
          /\ r_loc.filename \in verified
          /\ IF Basename(r_loc.filename) = HEADER_FILENAME
             THEN r_loc.has_header /\ put_log = <<>>
             ELSE ~r_loc.has_header /\ put_log = <<r_loc.filename>>
    /\ r_pc \in {"start", "hdr_name", "hdr_hmac", "hdr_next", "hdr_verify", "hdr_parse",
                 "start_worker"} => x_pc = "none"

\* the first announced name is qubes.xml.000: it is verified and enqueued
HeaderNamesWitness ==
    /\ HeaderPhaseOver
    /\ r_loc.filename = QubesXml
    /\ put_log = <<QubesXml>>

(***************************************************************************)
(* load_hmac called alone on the text of an .hmac file.                    *)
(***************************************************************************)

MaxText == 4

TextChars == {"=", " ", "\n", "a", "b"}

RECURSIVE TextsUpTo(_)
TextsUpTo(n) ==
    IF n = 0 THEN {<<>>}
    ELSE TextsUpTo(n - 1) \cup {Append(t, c) : t \in TextsUpTo(n - 1), c \in TextChars}

\* lines 1136-1143
LoadHmac ==
    /\ f_pc = "load_hmac"
    /\ LET res == load_hmac(f_args.hmac)
       IN  IF res.raised
           THEN f_pc' = "raised" /\ f_ret' = "ERROR: invalid hmac file content"
           ELSE f_pc' = "returned" /\ f_ret' = res.hmac
    /\ UNCHANGED <<f_args, f_loc>>
    /\ UNCHANGED <<wbfVars, backupVars, restoreVars>>

InitLoadHmac ==
    /\ f_pc = "load_hmac"
    /\ f_args \in [hmac : TextsUpTo(MaxText)]
    /\ f_loc = <<>>
    /\ f_ret = <<>>
    /\ WbfIdle
    /\ BackupIdle
    /\ RestoreIdle

NextLoadHmac == LoadHmac

SpecLoadHmac == InitLoadHmac /\ [][NextLoadHmac]_vars

\* C17: load_hmac returns, for a text with at least one '=', the text after
\* the first '=' with the whitespace around it stripped, further '='
\* included; for a text without '=' it raises.
LoadHmacAsStated ==
    f_pc \in {"returned", "raised"} =>
        LET text == f_args.hmac
        IN  IF Count(text, "=") >= 1
            THEN /\ f_pc = "returned"
                 /\ f_ret = Strip(SubSeq(text, EqAt(text) + 1, Len(text)))
            ELSE f_pc = "raised"

(***************************************************************************)
(* SendWorker.run followed alone, on a queue filled beforehand.            *)
(***************************************************************************)

MaxQueue == 3

SendNames == {HeaderFiles[1], Chunk0, FINISHED}

RECURSIVE QueuesUpTo(_)
QueuesUpTo(n) ==
    IF n = 0 THEN {<<>>}
    ELSE QueuesUpTo(n - 1) \cup {Append(q, name) : q \in QueuesUpTo(n - 1), name \in SendNames}

\* lines 314-327: the worker is started on a queue that holds any names, the
\* files of some of them being in base_dir
InitSend ==
    /\ f_pc = "run"
    /\ f_args \in [queue : QueuesUpTo(MaxQueue), files : SUBSET (SendNames \ {FINISHED})]
    /\ f_loc = <<>>
    /\ f_ret = <<>>
    /\ to_send = f_args.queue
    /\ files = f_args.files
    /\ send_pc = "get"
    /\ send_cur = <<>>
    /\ sent_log = f_args.queue
    /\ b_args = NoArgs
    /\ b_pc = "idle"
    /\ b_error = ""
    /\ b_loc = NoLocals
    /\ b_fx = NoEffects
    /\ tarPhase = "none"
    /\ openW = {}
    /\ WbfIdle
    /\ RestoreIdle

NextSend == SendGet \/ SendTar

SpecSend == InitSend /\ [][NextSend]_vars

\* C18: SendWorker gives the names to tar in the order of the queue and
\* only names before the first FINISHED; after exit code 0 or 1 it deletes
\* the file and goes on; after exit code 2 or more it ends with an error,
\* the file is not deleted and no later name is taken; at FINISHED it ends
\* normally and takes nothing behind it.
SendWorkerFifo ==
    LET n == Len(f_ret)
        taken == n + (IF send_pc \in {"tar", "done"} THEN 1 ELSE 0)
    IN  /\ n <= Len(f_args.queue)
        /\ to_send = SubSeq(f_args.queue, taken + 1, Len(f_args.queue))
        /\ \A k \in 1..n : f_ret[k].filename = f_args.queue[k]
        /\ \A k \in 1..n : \A j \in 1..k : f_args.queue[j] # FINISHED
        /\ \A k \in 1..(n - 1) : f_ret[k].code \in {0, 1}
        /\ files = f_args.files \ {f_ret[k].filename : k \in {j \in 1..n : f_ret[j].code < 2}}
        /\ send_pc = "failed" <=> (n > 0 /\ f_ret[n].code >= 2)
        /\ send_pc = "tar" => send_cur = f_args.queue[taken]
        /\ send_pc = "done" => f_args.queue[taken] = FINISHED

\* the first file was sent with a warning and deleted, tar failed on the
\* second, which is still there, and a third name is left on the queue
SendWorkerFifoWitness ==
    /\ send_pc = "failed"
    /\ Len(f_ret) = 2
    /\ f_ret[1].code = 1
    /\ f_ret[1].filename \notin files
    /\ f_ret[2].code = 2
    /\ f_ret[2].filename \in files
    /\ to_send # <<>>

(***************************************************************************)
(* backup_do on a plan long enough to fill the queue to SendWorker, the    *)
(* processes being scheduled fairly.                                       *)
(***************************************************************************)

\* three files of one VM: up to 2 + 3 * 2 * MaxChunks + 1 names are put on
\* the queue of length QueueCapacity
LongPlan ==
    << [path |-> <<"a">>, subdir |-> <<"v", "m", "1", "/">>, size |-> 1],
       [path |-> <<"b">>, subdir |-> <<"v", "m", "1", "/">>, size |-> 1],
       [path |-> <<"q">>, subdir |-> <<>>, size |-> 0] >>

\* lines 374-377: an encrypted backup to a VM
InitBackupLong ==
    /\ b_args = [files_to_backup |-> LongPlan, encrypted |-> TRUE, compressed |-> FALSE,
                 appvm |-> TRUE, dir_exists |-> TRUE]
    /\ b_pc = "check"
    /\ b_error = ""
    /\ b_loc = NoLocals
    /\ b_fx = NoEffects
    /\ tarPhase = "none"
    /\ files = {}
    /\ openW = {}
    /\ to_send = <<>>
    /\ sent_log = <<>>
    /\ send_pc = "none"
    /\ send_cur = <<>>
    /\ WbfIdle
    /\ RestoreIdle
    /\ FnIdle

\* the steps of the control process, of SendWorker and of the children
\* that the scheduler lets run; a failure of the digest tool or of the VM
\* process is not one of them
Scheduled ==
    \/ BCheck \/ BTarget \/ BProgress \/ BTmpdir \/ BStartSend \/ BPutHeader
    \/ BNextEntry \/ BOpenPipe \/ WbfStep \/ BChunkClose \/ BPutChunk
    \/ BHmacClose \/ BPutHmac \/ BPollTar \/ BPutFinished \/ BJoin \/ BFinish
    \/ TarWrites \/ TarVolumeEnd \/ TarFinishes \/ TarExits \/ StreamprocExits
    \/ SendGet \/ SendTar

\* tar_sparse comes to the end of a volume or of the file: a file is finite
TarEnds == TarVolumeEnd \/ TarFinishes

SpecBackupFair ==
    InitBackupLong /\ [][NextBackup]_vars /\ WF_vars(Scheduled) /\ WF_vars(TarEnds)

\* the control process waits at the open of the named pipe for a tar_sparse
\* that has ended without opening it
WaitsForTar == b_pc = "open_pipe" /\ tarPhase = "exited"

\* C19: once SendWorker has ended with an error, backup_do does not return
\* normally and eventually raises; it does not wait forever at a put on the
\* full queue.  (The wait at the open of the named pipe for a tar_sparse that
\* has ended is left aside: it has nothing to do with SendWorker.)
SendAbortEndsBackup ==
    /\ [](send_pc = "failed" => b_pc # "done")
    /\ (send_pc = "failed") ~> (b_pc = "raised" \/ WaitsForTar)

\* the control process waits at a put, the queue is full and SendWorker has
\* ended with an error
BlockedAtPut ==
    /\ send_pc = "failed"
    /\ Len(to_send) = QueueCapacity
    /\ b_pc \in {"put_header", "put_chunk", "put_hmac", "put_finished"}

(***************************************************************************)
(* Child stages at the end of a failed run.                                *)
(***************************************************************************)

\* C21: when backup_do ends with an exception, no child stage the run has
\* started (tar_sparse, the digest tool, the encryptor or compressor, the
\* helper VM's process) is still running, and neither is the SendWorker:
\* each has been terminated and waited for before the exception goes on.
StagesEndedOnError ==
    b_pc = "raised" =>
        /\ \A s \in Stages : proc[s] # "alive"
        /\ send_pc \notin {"get", "tar"}

(***************************************************************************)
(* ExtractWorker.run followed alone, on a queue filled beforehand.         *)
(***************************************************************************)

ExtractNames == {QubesXml, Chunk0, Chunk1, FINISHED, ERROR}

RECURSIVE QueuesOf(_, _)
QueuesOf(names, n) ==
    IF n = 0 THEN {<<>>}
    ELSE QueuesOf(names, n - 1)
         \cup {Append(q, name) : q \in QueuesOf(names, n - 1), name \in names}

\* lines 1037-1047 and 1087: the worker is started with any flags; the
\* queue holds any names, and the file of each is in restore_tmpdir
InitExtract ==
    /\ f_pc = "extract"
    /\ f_args \in [queue : QueuesOf(ExtractNames, MaxQueue),
                   encrypted : BOOLEAN, compressed : BOOLEAN]
    /\ f_loc = <<>>
    /\ f_ret = <<>>
    /\ to_extract = f_args.queue
    /\ disk = {f_args.queue[k] : k \in DOMAIN f_args.queue} \ {FINISHED, ERROR}
    /\ x_pc = "get"
    /\ x_cur = <<>>
    /\ x_opts = [encrypted |-> f_args.encrypted, compressed |-> f_args.compressed,
                 crypto_algorithm |-> DEFAULT_CRYPTO_ALGORITHM]
    /\ fed = <<>>
    /\ r_args = NoRestoreArgs
    /\ r_pc = "idle"
    /\ r_error = ""
    /\ r_loc = NoRestoreLocals
    /\ lines = 0
    /\ ended = FALSE
    /\ verified = {}
    /\ put_log = <<>>
    /\ v_last = NoVerify
    /\ WbfIdle
    /\ BackupIdle

NextExtract ==
    \/ XGet \/ XOpen \/ WbfStep \/ XChunkDone \/ XFinish
    \/ FilterEnds \/ Tar2Fails

SpecExtract == InitExtract /\ [][NextExtract]_vars

IsFirst(name) == EndsWith(name, <<".", "0", "0", "0">>)

\* what the worker did with its inner tars: Popen and wait, in their order
ReaderHistory == SelectSeq(f_ret, LAMBDA e : e.op \in {"Popen", "wait"})

\* C22: the ExtractWorker has at most one inner tar at a time: a new one is
\* started only for a name ending in .000, and only after the wait() on the
\* running one, if any, has returned 0; a wait() that returns another code,
\* at a name ending in .000 or at the end of the queue, ends the worker with
\* an error; so the worker ends with exit code 0 only if the wait() on
\* every inner tar it started returned 0.
OneReader ==
    LET rs == ReaderHistory
        n == Len(f_ret)
    IN  /\ rs # <<>> => rs[1].op = "Popen"
        /\ \A j \in 1..(Len(rs) - 1) :
              IF rs[j].op = "Popen"
              THEN rs[j + 1].op = "wait"
              ELSE rs[j + 1].op = "Popen" /\ rs[j].code = 0
        /\ \A k \in 1..n : f_ret[k].op = "Popen" => IsFirst(f_ret[k].file)
        /\ \A k \in 1..n :
              f_ret[k].op = "feed" /\ IsFirst(f_ret[k].file)
                 => k > 1 /\ f_ret[k - 1] = Event("Popen", f_ret[k].file, 0)
        /\ \A k \in 1..n :
              f_ret[k].op = "wait" /\ f_ret[k].code # 0
                 => /\ k = n - 1
                    /\ f_ret[n].op = "error_callback"
                    /\ x_pc = "failed"
        /\ proc.addproc = "alive" => rs # <<>> /\ Last(rs).op = "Popen"
        /\ x_pc = "done" => rs = <<>> \/ Last(rs) = Event("wait", <<>>, 0)

\* two inner tars were started, each exited with 0, and the worker ended
\* normally
OneReaderWitness ==
    /\ x_pc = "done"
    /\ Len(ReaderHistory) = 4
    /\ x_cur = FINISHED

\* the number of events op among the events k+1..j of the history
RECURSIVE CountOps(_, _, _)
CountOps(op, k, j) ==
    IF j <= k THEN 0
    ELSE CountOps(op, k, j - 1) + (IF f_ret[j].op = op THEN 1 ELSE 0)

\* C23: before the ExtractWorker writes a chunk whose name does not end in
\* .000 into restore_pipe it has written one newline to the stdin of the
\* running inner tar, and nothing in between; for a chunk whose name ends
\* in .000 it writes no newline; so an inner tar that was given k chunks
\* has been sent k - 1 newlines.
VolumeAdvance ==
    LET n == Len(f_ret)
    IN  /\ \A k \in 1..n :
              f_ret[k].op = "feed" /\ ~IsFirst(f_ret[k].file)
                 => k > 1 /\ f_ret[k - 1] = Event("newline", f_ret[k].file, 0)
        /\ \A k \in 1..n :
              f_ret[k].op = "feed" /\ IsFirst(f_ret[k].file)
                 => k > 1 /\ f_ret[k - 1].op = "Popen"
        /\ \A k \in 1..n :
              f_ret[k].op = "newline"
                 => /\ ~IsFirst(f_ret[k].file)
                    /\ k < n => \/ f_ret[k + 1] = Event("feed", f_ret[k].file, 0)
                                \/ f_ret[k + 1].op = "error_callback"
        /\ \A k \in 1..n, j \in 1..n :
              /\ k < j
              /\ f_ret[k].op = "Popen"
              /\ f_ret[j].op = "feed"
              /\ \A m \in (k + 1)..j : f_ret[m].op # "Popen"
              => CountOps("newline", k, j) = CountOps("feed", k, j) - 1

\* one inner tar was given the chunks .000 and .001 and one newline, and
\* ended with 0
VolumeAdvanceWitness ==
    /\ x_pc = "done"
    /\ fed = <<Chunk0, Chunk1>>
    /\ CountOps("newline", 0, Len(f_ret)) = 1
    /\ CountOps("Popen", 0, Len(f_ret)) = 1

\* the chunks the worker has removed
Removed == {f_ret[k].file : k \in {j \in DOMAIN f_ret : f_ret[j].op = "remove"}}

\* the files restore_tmpdir held when the worker was started
QueuedFiles == {f_args.queue[k] : k \in DOMAIN f_args.queue} \ {FINISHED, ERROR}

\* C25: the ExtractWorker removes a chunk only when wait_backup_feedback has
\* read the chunk (through the decryptor or decompressor, if any) to its end
\* into restore_pipe and has reported no failed stage; a chunk whose
\* processing failed is left in place; the chunks are processed in the
\* order of the queue, each place of the queue at most once.
RemovesAfterSuccess ==
    /\ [](/\ disk = QueuedFiles \ Removed
          /\ \A k \in DOMAIN f_ret :
                f_ret[k].op = "remove"
                   => k > 1 /\ f_ret[k - 1] = Event("feed", f_ret[k].file, 0)
          /\ Len(fed) <= Len(f_args.queue)
          /\ fed = SubSeq(f_args.queue, 1, Len(fed))
          /\ \A k \in DOMAIN fed : ~Sentinel(fed[k])
          /\ (x_pc = "failed" /\ f_ret # <<>> /\ Last(f_ret).op = "feed")
                => Last(f_ret).file \in disk)
    /\ [][disk' # disk =>
            /\ x_pc = "wbf" /\ wbf_pc = "returned" /\ wbf_ret = ""
            /\ inData = 0 /\ inClosed
            /\ proc.streamproc \in {"absent", "exit0"}
            /\ disk' = disk \ {x_cur}
            /\ x_cur = Last(fed)]_vars

\* the first chunk was processed and removed; the processing of the second
\* failed, and the second is still in restore_tmpdir
RemovesAfterSuccessWitness ==
    /\ x_pc = "failed"
    /\ Len(fed) = 2
    /\ fed[1] \notin disk
    /\ fed[2] \in disk
    /\ Len(f_ret) >= 2
    /\ f_ret[Len(f_ret) - 1] = Event("feed", fed[2], 0)
    /\ Last(f_ret).op = "error_callback"

(***************************************************************************)
(* Names of no selected directory.                                         *)
(***************************************************************************)

\* C26: when the chunk name of an announced pair starts with none of
\* vms_dirs, restore_vm_dirs removes the two announced files, calls
\* verify_hmac on nothing, puts nothing on the queue, raises nothing and
\* goes on with the loop.
HostileNameDropped ==
    [][(r_pc = "filter" /\ ~Selected(r_loc.filename) /\ r_pc' # r_pc)
          => /\ r_pc' = "loop_name"
             /\ r_error' = r_error
             /\ disk' = disk \ {r_loc.filename, r_loc.hmacfile}
             /\ {r_loc.filename, r_loc.hmacfile} \subseteq disk
             /\ UNCHANGED <<to_extract, put_log, v_last, verified>>]_vars

\* ---- an archive that holds the chunks of vm1 and of vm10, vm1 being the
\* only VM selected (backup_path is 'vm%d' % vm.qid, line 244)

Sibling0 == <<"v", "m", "1", "0", "/", "a", ".", "0", "0", "0">>

\* lines 1561-1593: backup_restore_do calls restore_vm_dirs with the
\* backup_path of each selected VM
InitSibling ==
    /\ f_pc = "restore"
    /\ f_args = [names |-> {Chunk0, Sibling0}]
    /\ f_loc = <<>>
    /\ f_ret = <<>>
    /\ r_args \in [appvm : BOOLEAN, vms_dirs : {SelectedDirs},
                   hmac_algorithm : {DEFAULT_HMAC_ALGORITHM}, encrypted : {FALSE},
                   compressed : BOOLEAN, crypto_algorithm : {DEFAULT_CRYPTO_ALGORITHM}]
    /\ r_pc = "start"
    /\ r_error = ""
    /\ r_loc = [NoRestoreLocals EXCEPT !.hmac_algorithm = r_args.hmac_algorithm,
                                       !.encrypted = r_args.encrypted,
                                       !.compressed = r_args.compressed,
                                       !.crypto_algorithm = r_args.crypto_algorithm]
    /\ lines = 0
    /\ ended = FALSE
    /\ disk = {}
    /\ to_extract = <<>>
    /\ verified = {}
    /\ put_log = <<>>
    /\ v_last = NoVerify
    /\ x_pc = "none"
    /\ x_cur = <<>>
    /\ x_opts = NoOpts
    /\ fed = <<>>
    /\ WbfIdle
    /\ BackupIdle

\* restore_vm_dirs without its header phase
NextLoop ==
    \/ RStart \/ RStartWorker \/ RLoopName \/ RLoopHmac \/ RLoopNext
    \/ RFilter \/ RVerify \/ RAfterLoop \/ RJoinError \/ RPutFinished
    \/ RJoin
    \/ XGet \/ XOpen \/ WbfStep \/ XChunkDone \/ XFinish
    \/ FilterEnds \/ Tar2Fails

SpecSibling == InitSibling /\ [][NextLoop]_vars

\* the first component of a path
RECURSIVE TopDir(_)
TopDir(path) ==
    IF path = <<>> \/ Head(path) = "/" THEN <<>>
    ELSE <<Head(path)>> \o TopDir(Tail(path))

\* C27: a chunk is put on the queue to the ExtractWorker, and fed by it to
\* the inner tar, only if the first component of its name is one of
\* vms_dirs: with vm1 selected, no chunk of vm10 gets there.
OnlySelectedVms ==
    LET dirs == {r_args.vms_dirs[k] : k \in DOMAIN r_args.vms_dirs}
    IN  /\ \A k \in DOMAIN put_log :
              ~Sentinel(put_log[k]) => TopDir(put_log[k]) \in dirs
        /\ \A k \in DOMAIN fed : TopDir(fed[k]) \in dirs

(***************************************************************************)
(* restore_vm_dirs on the list of names of a well-formed archive that is   *)
(* cut at any place.                                                       *)
(***************************************************************************)

\* the names an archive of the backup side announces: each chunk, then its
\* .hmac (lines 450-451, 549 and 569)
WholeStream(header) ==
    IF header
    THEN <<HEADER_FILENAME, HEADER_FILENAME \o DotHmac, QubesXml, QubesXml \o DotHmac>>
    ELSE <<Chunk0, Chunk0 \o DotHmac, Chunk1, Chunk1 \o DotHmac>>

Min(a, b) == IF a <= b THEN a ELSE b

InitStream ==
    /\ r_args \in [appvm : BOOLEAN,
                   vms_dirs : {extract_filter(TRUE), extract_filter(FALSE), SelectedDirs},
                   hmac_algorithm : {DEFAULT_HMAC_ALGORITHM}, encrypted : {FALSE},
                   compressed : {FALSE}, crypto_algorithm : {DEFAULT_CRYPTO_ALGORITHM}]
    /\ r_args.vms_dirs \in {extract_filter(r_args.appvm), SelectedDirs}
    /\ f_pc = "stream"
    /\ \E n \in 0..Min(4, MaxLines), eof \in BOOLEAN :
          /\ eof => n < MaxLines
          /\ f_args = [stream |-> SubSeq(WholeStream(HeaderWanted), 1, n), eof |-> eof]
    /\ f_loc = <<>>
    /\ f_ret = <<>>
    /\ r_pc = "start"
    /\ r_error = ""
    /\ r_loc = [NoRestoreLocals EXCEPT !.hmac_algorithm = r_args.hmac_algorithm,
                                       !.encrypted = r_args.encrypted,
                                       !.compressed = r_args.compressed,
                                       !.crypto_algorithm = r_args.crypto_algorithm]
    /\ lines = 0
    /\ ended = FALSE
    /\ disk = {}
    /\ to_extract = <<>>
    /\ verified = {}
    /\ put_log = <<>>
    /\ v_last = NoVerify
    /\ x_pc = "none"
    /\ x_cur = <<>>
    /\ x_opts = NoOpts
    /\ fed = <<>>
    /\ WbfIdle
    /\ BackupIdle

SpecStream == InitStream /\ [][Next]_vars

\* the list ends after the name of a chunk and before the name of its .hmac
CutInPair == Len(f_args.stream) % 2 = 1

InSeq(x, s) == \E k \in DOMAIN s : s[k] = x

\* lines 1089-1098: the errors raised for the exit code of the demultiplexer
\* or of the helper VM's process
ExitCodeErrors == {"unable to read the qubes backup file", "VM error"}

\* C28: when the list of names ends after the name of a chunk and before
\* the name of its .hmac, the loop of restore_vm_dirs ends with the error
\* "Premature end of archive" naming that chunk (or, when the demultiplexer
\* or the helper VM exited with another code than 0, with the error on
\* that), the chunk has not been put on the queue, and ERROR, not
\* FINISHED, is put; when the list ends after a whole pair, no
\* premature-end error is raised.
PrematureEnd ==
    /\ [](/\ CutInPair => r_pc \notin {"put_finished", "join", "done"}
          /\ (CutInPair /\ x_pc # "none")
                => /\ ~InSeq(Last(f_args.stream), put_log)
                   /\ ~InSeq(FINISHED, put_log)
          /\ (~CutInPair /\ x_pc # "none") => r_error # "Premature end of archive")
    /\ [][(CutInPair /\ r_pc = "after_loop" /\ r_pc' # r_pc)
             => /\ r_error' \in {"Premature end of archive"} \cup ExitCodeErrors
                /\ r_loc.filename = Last(f_args.stream)
                /\ Last(put_log') = ERROR]_vars

(***************************************************************************)
(* The limits restore_vm_dirs gives to the demultiplexer, lines 943-957.   *)
(***************************************************************************)

MaxSizeSteps == 40

\* line 472: '--tape-length', str(100000)
TapeLength == 100000

\* the size in bytes of a chunk the backup side writes: tar counts the tape
\* length in units of 1024 bytes
ChunkSize == TapeLength * 1024

\* the sizes the restore is followed on: multiples of half a chunk
SizeStep == (TapeLength \div 2) * 1024

\* vm.backup_path of n VMs (line 244)
VmDirs(n) == [k \in 1..n |-> <<"v", "m">> \o Decimal(k)]

InitBudget ==
    /\ f_pc = "budget"
    /\ f_args \in [vms_dirs : {extract_filter(TRUE), extract_filter(FALSE)}
                                 \cup {VmDirs(n) : n \in 1..(MaxPlan + 1)},
                   vms_size : {k * SizeStep : k \in 0..MaxSizeSteps}]
    /\ f_loc = <<>>
    /\ f_ret = <<>>
    /\ WbfIdle
    /\ BackupIdle
    /\ RestoreIdle

\* lines 943-957: tar1_env
SetBudget ==
    /\ f_pc = "budget"
    /\ LET vms_dirs == f_args.vms_dirs
           vms_size == f_args.vms_size
       IN  f_ret' = [UPDATES_MAX_BYTES |-> Decimal(vms_size),
                     UPDATES_MAX_FILES |->
                        IF vms_dirs # <<>> /\ vms_dirs[1] = HEADER_FILENAME
                        THEN <<"4">>
                        ELSE Decimal(2 * (10 * Len(vms_dirs)
                                          + (vms_size \div (100 * 1024 * 1024))))]
    /\ f_pc' = "set"
    /\ UNCHANGED <<f_args, f_loc>>
    /\ UNCHANGED <<wbfVars, backupVars, restoreVars>>

NextBudget == SetBudget

SpecBudget == InitBudget /\ [][NextBudget]_vars

\* C29: for a restore of selected VMs the demultiplexer is given
\* UPDATES_MAX_BYTES = vms_size and UPDATES_MAX_FILES =
\* 2 * (10 * len(vms_dirs) + floor(vms_size / chunk size)), the chunk size
\* being the one of the backup side: 100000 blocks of 1024 bytes.
BudgetAsStated ==
    (f_pc = "set" /\ ~(f_args.vms_dirs # <<>> /\ f_args.vms_dirs[1] = HEADER_FILENAME))
       => /\ f_ret.UPDATES_MAX_BYTES = Decimal(f_args.vms_size)
          /\ f_ret.UPDATES_MAX_FILES
                = Decimal(2 * (10 * Len(f_args.vms_dirs) + (f_args.vms_size \div ChunkSize)))

(***************************************************************************)
(* The sentinel restore_vm_dirs ends the queue with.                       *)
(***************************************************************************)

\* the places of put_log that hold FINISHED or ERROR
Sentinels == {k \in DOMAIN put_log : Sentinel(put_log[k])}

Ended == r_pc \in {"done", "raised"}

\* the error of lines 1115-1118, raised after FINISHED was put
ExtractFailed == "unable to extract the qubes backup"

Reports == {k \in DOMAIN f_ret : f_ret[k].op = "error_callback"}

\* the children the worker holds: the inner tar and the decryptor or
\* decompressor
Children == {"addproc", "streamproc"}

\* C31: a failed ExtractWorker (a stage reported by wait_backup_feedback, an
\* inner tar that exited with an error, any exception of its loop) has
\* terminated and waited for its children, has called error_callback once,
\* and has a non-zero exit code, with which restore_vm_dirs does not return
\* but raises after the join; the names left on the queue are never taken
\* and nothing more is fed to an inner tar.
WorkerCleanup ==
    /\ [](x_pc = "failed" => /\ \A s \in Children : proc[s] # "alive"
                             /\ Cardinality(Reports) = 1
                             /\ r_pc # "done")
    /\ [](x_pc # "failed" => Reports = {})
    /\ [][x_pc = "failed" => /\ x_pc' = "failed"
                             /\ fed' = fed
                             /\ to_extract' = to_extract \/ Len(to_extract') > Len(to_extract)
                             /\ proc' = proc
                             /\ f_ret' = f_ret]_vars
    /\ [][(x_pc = "failed" /\ r_pc = "join" /\ r_pc' # r_pc)
             => r_pc' = "raised" /\ r_error' = ExtractFailed]_vars

\* the worker failed at a chunk while another chunk was queued behind it;
\* the chunk stayed on the queue and restore_vm_dirs raised after the join
WorkerCleanupWitness ==
    /\ x_pc = "failed"
    /\ r_pc = "raised"
    /\ r_error = ExtractFailed
    /\ Len(to_extract) >= 2
    /\ ~Sentinel(to_extract[1])
    /\ Len(fed) = 1
    /\ Cardinality(Reports) = 1

(***************************************************************************)
(* The restore plan: restore_info_verify and the selection made by         *)
(* backup_restore_do.  f_args holds restore_info (options, vms, dom0) and  *)
(* the host collection (the kind of the VM of each name, "none" when the   *)
(* host has no VM of that name); f_loc is restore_info as it is rewritten, *)
(* f_ret what backup_restore_do requested and added.                       *)
(***************************************************************************)

PlanNames == {"work", "tpl", "net"}

HostDefaults == [template |-> "deftpl", netvm |-> "defnet"]

HostNames == PlanNames \cup {HostDefaults.template, HostDefaults.netvm}

\* lines 1249-1252: the keys that forbid the restore of a VM
Blockers == {"missing-netvm", "missing-template", "already-exists", "excluded"}

\* lines 1215 and 1218: is_template() of the host VM or of the VM in the
\* backup of that name
IsTemplateOn(vms, name) == name \in DOMAIN vms /\ vms[name].vm = "TemplateVM"

\* lines 1236 and 1239: is_netvm()
IsNetvmOn(vms, name) == name \in DOMAIN vms /\ vms[name].vm = "NetVM"

OnHost(host, name, kind) == name \in DOMAIN host /\ host[name] = kind

\* the stale key of an earlier call is kept
VerifyVmMutant(vm, vms, options, host) ==
    LET vm_info == vms[vm]
        excluded == IF options.has_exclude /\ vm \in options.exclude
                    THEN {"excluded"} ELSE vm_info.keys \cap {"excluded"}
        exists == IF host[vm] # "none" THEN {"already-exists"} ELSE {}
        keys == excluded \cup exists
    IN  [vm_info EXCEPT !.keys = keys, !.good = (keys \cap Blockers = {})]

\* lines 1199-1252 for one VM of restore_info
VerifyVm(vm, vms, options, host) ==
    LET vm_info == vms[vm]
        excluded == IF options.has_exclude /\ vm \in options.exclude
                    THEN {"excluded"} ELSE {}
        exists == IF host[vm] # "none" THEN {"already-exists"} ELSE {}
        noTemplate == /\ vm_info.template # "None"
                      /\ ~OnHost(host, vm_info.template, "TemplateVM")
                      /\ ~IsTemplateOn(vms, vm_info.template)
        noNetvm == /\ vm_info.netvm # "None"
                   /\ ~OnHost(host, vm_info.netvm, "NetVM")
                   /\ ~IsNetvmOn(vms, vm_info.netvm)
        template == IF noTemplate /\ options.use_default_template
                    THEN HostDefaults.template ELSE vm_info.template
        netvm == IF noNetvm /\ options.use_default_netvm THEN HostDefaults.netvm
                 ELSE IF noNetvm /\ options.use_none_netvm THEN "None"
                 ELSE vm_info.netvm
        orig == IF noTemplate /\ options.use_default_template
                THEN {"orig-template"} ELSE {}
        missingT == IF noTemplate /\ ~options.use_default_template
                    THEN {"missing-template"} ELSE {}
        missingN == IF noNetvm /\ ~options.use_default_netvm /\ ~options.use_none_netvm
                    THEN {"missing-netvm"} ELSE {}
        keys == ((vm_info.keys \ Blockers) \cup excluded \cup exists
                 \cup orig \cup missingT \cup missingN)
    IN  [vm_info EXCEPT !.keys = keys,
                        !.template = template,
                        !.netvm = netvm,
                        !.uses_default_netvm = (vm_info.uses_default_netvm
                                                \/ (noNetvm /\ options.use_default_netvm)),
                        !.good = (keys \cap Blockers = {})]

\* lines 1193-1254: every VM of restore_info but $OPTIONS$ and dom0
restore_info_verify(vms, options, host) ==
    [vm \in DOMAIN vms |-> VerifyVm(vm, vms, options, host)]

\* the vm_info of a VM read from the backup: its class, its template and
\* netvm by name, and the keys a former restore_info_verify may have left
VmInfo(kind, template, netvm, keys) ==
    [vm |-> kind, template |-> template, netvm |-> netvm, keys |-> keys,
     uses_default_netvm |-> FALSE, good |-> FALSE]

\* the VMs of the backup: an AppVM with or without template and netvm, and
\* possibly VMs named like its template and its netvm, of any class
BackupVms ==
    {[n \in S |-> IF n = "work" THEN w ELSE IF n = "tpl" THEN t ELSE v] :
        S \in {{"work"}, {"work", "tpl"}, {"work", "net"}, PlanNames},
        w \in {VmInfo("AppVM", tn[1], tn[2], k) :
                  tn \in {"None", "tpl"} \X {"None", "net"},
                  k \in {{}, Blockers}},
        t \in {VmInfo(c, "None", "None", {}) : c \in {"TemplateVM", "AppVM"}},
        v \in {VmInfo(c, "None", "None", {}) : c \in {"NetVM", "AppVM"}}}

\* the options of the restore; has_exclude is `'exclude' in options.keys()`
PlanOptions ==
    {o \in [has_exclude : BOOLEAN,
            exclude : {{}, {"work"}},
            use_default_template : BOOLEAN,
            use_default_netvm : BOOLEAN,
            use_none_netvm : BOOLEAN] : ~o.has_exclude => o.exclude = {}}

\* the host: its default template and netvm, and any VM of the names of the
\* backup
Hosts ==
    {[n \in HostNames |->
         IF n = HostDefaults.template THEN "TemplateVM"
         ELSE IF n = HostDefaults.netvm THEN "NetVM"
         ELSE IF n = "work" THEN w ELSE IF n = "tpl" THEN t ELSE v] :
        w \in {"none", "AppVM"},
        t \in {"none", "AppVM", "TemplateVM"},
        v \in {"none", "AppVM", "NetVM"}}

\* lines 1393-1415: restore_info['dom0'], absent or good-to-go or not
Dom0Infos == {"absent", "good", "mismatch"}

InitPlan ==
    /\ f_args \in [vms : BackupVms, options : PlanOptions, host : Hosts,
                   dom0 : Dom0Infos]
    /\ f_pc = "plan"
    /\ f_loc = f_args.vms
    /\ f_ret = [vms_dirs |-> {}, added |-> {}]
    /\ WbfIdle
    /\ BackupIdle
    /\ RestoreIdle

\* backup_restore_prepare line 1417 calls restore_info_verify
PlanVerify ==
    /\ f_pc = "plan"
    /\ f_loc' = restore_info_verify(f_args.vms, f_args.options, f_args.host)
    /\ f_pc' = "verified"
    /\ UNCHANGED <<f_args, f_ret>>
    /\ UNCHANGED <<wbfVars, backupVars, restoreVars>>

\* the VMs backup_restore_do keeps: lines 1564-1573
GoodVms == {vm \in DOMAIN f_loc : f_loc[vm].good}

\* lines 1560-1592: vms_dirs, the directories asked of restore_vm_dirs,
\* which returns or raises
PlanRequest ==
    /\ f_pc = "verified"
    /\ f_ret' = [f_ret EXCEPT !.vms_dirs =
                    GoodVms \cup (IF f_args.dom0 = "good" THEN {"dom0-home"} ELSE {})]
    /\ f_pc' \in {"requested", "raised"}
    /\ UNCHANGED <<f_args, f_loc>>
    /\ UNCHANGED <<wbfVars, backupVars, restoreVars>>

\* lines 1594-1648: add_new_vm for the VMs kept; a VM whose directory or
\* files fail is skipped
PlanAdd ==
    /\ f_pc = "requested"
    /\ \E added \in SUBSET GoodVms : f_ret' = [f_ret EXCEPT !.added = added]
    /\ f_pc' = "done"
    /\ UNCHANGED <<f_args, f_loc>>
    /\ UNCHANGED <<wbfVars, backupVars, restoreVars>>

NextPlan == PlanVerify \/ PlanRequest \/ PlanAdd

SpecPlan == InitPlan /\ [][NextPlan]_vars

\* the four reasons, read from the arguments of restore_info_verify
IsExcluded(vm) == f_args.options.has_exclude /\ vm \in f_args.options.exclude

AlreadyExists(vm) == f_args.host[vm] # "none"

Provided(name, kind) ==
    \/ f_args.host[name] = kind
    \/ name \in DOMAIN f_args.vms /\ f_args.vms[name].vm = kind

MissingTemplate(vm) ==
    /\ f_args.vms[vm].template # "None"
    /\ ~Provided(f_args.vms[vm].template, "TemplateVM")
    /\ ~f_args.options.use_default_template

MissingNetvm(vm) ==
    /\ f_args.vms[vm].netvm # "None"
    /\ ~Provided(f_args.vms[vm].netvm, "NetVM")
    /\ ~f_args.options.use_default_netvm
    /\ ~f_args.options.use_none_netvm

\* C32: restore_info_verify marks a VM good-to-go exactly when it is not
\* excluded, no VM of its name exists on the host, and its template and its
\* netvm are on the host or in the backup or were replaced as the options
\* use-default-template, use-default-netvm, use-none-netvm allow;
\* backup_restore_do asks restore_vm_dirs for the directories of good-to-go
\* VMs only (and dom0-home when dom0 is good-to-go) and adds only
\* good-to-go VMs to the host collection.
PlanAsStated ==
    f_pc \in {"verified", "requested", "raised", "done"} =>
       /\ \A vm \in DOMAIN f_loc :
             /\ f_loc[vm].good <=> ~(\/ IsExcluded(vm) \/ AlreadyExists(vm)
                                     \/ MissingTemplate(vm) \/ MissingNetvm(vm))
             /\ "excluded" \in f_loc[vm].keys <=> IsExcluded(vm)
             /\ "already-exists" \in f_loc[vm].keys <=> AlreadyExists(vm)
             /\ "missing-template" \in f_loc[vm].keys <=> MissingTemplate(vm)
             /\ "missing-netvm" \in f_loc[vm].keys <=> MissingNetvm(vm)
       /\ f_ret.vms_dirs \ {"dom0-home"} \subseteq GoodVms
       /\ "dom0-home" \in f_ret.vms_dirs => f_args.dom0 = "good"
       /\ f_ret.added \subseteq GoodVms
       /\ f_ret.added \subseteq f_ret.vms_dirs

\* a plan verified a second time: the AppVM, refused before, is now
\* good-to-go with the default template in place of the one that is
\* missing, and was requested and added, while the VM named like its
\* netvm exists on the host and was neither requested nor added
PlanAsStatedWitness ==
    /\ f_pc = "done"
    /\ f_args.vms["work"].keys = Blockers
    /\ f_args.vms["work"].template = "tpl"
    /\ f_loc["work"].template = HostDefaults.template
    /\ "work" \in f_ret.added
    /\ "net" \in DOMAIN f_loc
    /\ ~f_loc["net"].good
    /\ "net" \notin f_ret.vms_dirs

(***************************************************************************)
(* The bytes of a chunk and of its .hmac file.                             *)
(***************************************************************************)

\* backup_do of one file, encrypted or compressed or neither, with the bytes
\* followed
InitBytes ==
    /\ b_args \in [files_to_backup : {<<[path |-> <<"a">>, subdir |-> <<"v", "m", "1", "/">>,
                                        size |-> 1]>>},
                   encrypted : BOOLEAN, compressed : BOOLEAN,
                   appvm : BOOLEAN, dir_exists : {TRUE}]
    /\ b_pc = "check"
    /\ b_error = ""
    /\ b_loc = NoLocals
    /\ b_fx = NoEffects
    /\ tarPhase = "none"
    /\ files = {}
    /\ openW = {}
    /\ to_send = <<>>
    /\ sent_log = <<>>
    /\ send_pc = "none"
    /\ send_cur = <<>>
    /\ WbfIdle
    /\ RestoreIdle
    /\ f_args = <<>>
    /\ f_pc = "bytes"
    /\ f_loc = NoBytes
    /\ f_ret = <<>>

SpecBytes == InitBytes /\ [][NextBackup]_vars

\* C33: of every chunk that backup_do has put on the queue with its .hmac
\* file, the blocks written to the stdin of the digest tool are the blocks
\* written to the chunk file, in the same order; the digest tool was
\* started for this chunk, so that the blocks of two chunks are disjoint;
\* and the .hmac file holds the digest, by a tool that ended well, of
\* exactly these blocks.
HmacCoversChunk ==
    /\ \A k \in DOMAIN f_ret :
          /\ f_ret[k].stdin = f_ret[k].bytes
          /\ f_ret[k].hmac_file = [over |-> f_ret[k].bytes, ok |-> TRUE]
    /\ \A j, k \in DOMAIN f_ret :
          j # k => \A m \in DOMAIN f_ret[j].bytes, n \in DOMAIN f_ret[k].bytes :
                      f_ret[j].bytes[m] # f_ret[k].bytes[n]

(***************************************************************************)
(* The release of the next volume by backup_do.                            *)
(***************************************************************************)

\* C34: after the chunk and its .hmac file were put on the queue, backup_do
\* writes the newline and goes to the next chunk only when tar_sparse waits
\* at the end of a volume; when tar_sparse has written the whole entry the
\* chunk loop of the entry ends, whenever tar_sparse exits with respect to
\* the poll(): backup_do never waits at the open of the named pipe for a
\* tar_sparse that will not open it.
VolumeRelease ==
    /\ [][(b_pc = "poll_tar" /\ b_pc' = "open_pipe") => tarPhase = "boundary"]_vars
    /\ [](~(WaitsForTar /\ b_loc.i > 0 /\ proc.addproc = "exit0"))

(***************************************************************************)
(* The use of the names read by restore_vm_dirs.                           *)
(***************************************************************************)

\* the names at the places k and k + 1 of the list are a chunk and its .hmac
PairAt(k) == k % 2 = 1 /\ k < Len(f_args.stream)

Times(x, s) == Cardinality({k \in DOMAIN s : s[k] = x})

\* C35: every name restore_vm_dirs reads is used once, as the chunk or as
\* the .hmac of one pair, reading the archive directly or through a helper
\* VM, the name read ahead in the header phase included: the pair the loop
\* filters and verifies is a pair of the list, no name is put twice, and a
\* list that ends after a whole pair gives no premature-end error; the
\* header restore of backup-header, backup-header.hmac, qubes.xml.000,
\* qubes.xml.000.hmac puts qubes.xml.000 once and ends normally.
EveryNameOnce ==
    /\ r_pc \in {"filter", "verify"}
          => \E k \in DOMAIN f_args.stream :
                /\ PairAt(k)
                /\ r_loc.filename = f_args.stream[k]
                /\ r_loc.hmacfile = f_args.stream[k + 1]
    /\ \A k \in DOMAIN put_log : Times(put_log[k], put_log) = 1
    /\ (~CutInPair /\ x_pc # "none") => r_error # "Premature end of archive"
    /\ (r_pc = "done" /\ f_args.stream = WholeStream(TRUE))
          => put_log = <<QubesXml, FINISHED>>

(***************************************************************************)
(* The files restore_vm_dirs removes.                                      *)
(***************************************************************************)

\* restore_vm_dirs for a selected VM on an archive that names, in any
\* order and any number of times, a chunk of that VM and a file of no
\* selected directory, and may name a chunk where the name of a .hmac file
\* is expected
InitHostile ==
    /\ f_pc = "hostile"
    /\ f_args = [names |-> {Chunk0, QubesXml}]
    /\ f_loc = <<>>
    /\ f_ret = <<>>
    /\ r_args \in [appvm : BOOLEAN, vms_dirs : {SelectedDirs},
                   hmac_algorithm : {DEFAULT_HMAC_ALGORITHM}, encrypted : {FALSE},
                   compressed : BOOLEAN, crypto_algorithm : {DEFAULT_CRYPTO_ALGORITHM}]
    /\ r_pc = "start"
    /\ r_error = ""
    /\ r_loc = [NoRestoreLocals EXCEPT !.hmac_algorithm = r_args.hmac_algorithm,
                                       !.encrypted = r_args.encrypted,
                                       !.compressed = r_args.compressed,
                                       !.crypto_algorithm = r_args.crypto_algorithm]
    /\ lines = 0
    /\ ended = FALSE
    /\ disk = {}
    /\ to_extract = <<>>
    /\ verified = {}
    /\ put_log = <<>>
    /\ v_last = NoVerify
    /\ x_pc = "none"
    /\ x_cur = <<>>
    /\ x_opts = NoOpts
    /\ fed = <<>>
    /\ WbfIdle
    /\ BackupIdle

SpecHostile == InitHostile /\ [][NextLoop]_vars

\* the chunks verified and put on the queue that the worker has not done
\* with: those on the queue and the one it is working on
Pending(f) == InSeq(f, to_extract) \/ (x_pc \in {"open", "wbf"} /\ x_cur = f)

\* C36: no step of the control thread of restore_vm_dirs removes a file
\* that it has verified and put on the queue and that the ExtractWorker
\* has not yet consumed, whatever names the archive announces.
KeepsQueuedFiles ==
    [][r_pc' # r_pc => \A f \in disk \ disk' : ~Pending(f)]_vars

(***************************************************************************)
(* The value wait_backup_feedback returns.                                 *)
(***************************************************************************)

\* C37: wait_backup_feedback returns a string, "" or the name of a stage,
\* and never None, whichever of hmac, addproc, vmproc and streamproc are
\* given and in whatever order they exit (addproc is given by both
\* callers, so only the calls with addproc are looked at).
ReturnsString ==
    (wbf_pc = "returned" /\ proc.addproc # "absent")
        => wbf_ret \in {""} \cup StageNames

(***************************************************************************)
(* The member the inner tar is asked for, line 794.                        *)
(***************************************************************************)

\* characters of the last component of a logical path, at most
MaxBase == 5

BaseChars == {"a", "0", "."}

\* file names that begin with a letter
BaseNames ==
    {<<"a">> \o rest : rest \in UNION {[1..n -> BaseChars] : n \in 0..(MaxBase - 1)}}

\* str.rstrip(chars): the longest tail of characters of the set is removed
RECURSIVE rstrip(_, _)
rstrip(s, chars) ==
    IF s # <<>> /\ s[Len(s)] \in chars
    THEN rstrip(SubSeq(s, 1, Len(s) - 1), chars)
    ELSE s

\* os.path.relpath of a path below the working directory whose components
\* are names: a slash at the end is dropped
relpath(path) ==
    IF path # <<>> /\ path[Len(path)] = "/" THEN SubSeq(path, 1, Len(path) - 1)
    ELSE path

\* the characters of the argument '.000' of rstrip
Suffix000 == <<".", "0", "0", "0">>

CharsOf(s) == {s[k] : k \in DOMAIN s}

\* the first chunk of a file of a selected VM comes to the ExtractWorker
InitMember ==
    /\ f_args \in {[filename |-> <<"v", "m", "1", "/">> \o base \o Suffix000] :
                      base \in BaseNames}
    /\ f_pc = "member"
    /\ f_loc = <<>>
    /\ f_ret = <<>>
    /\ WbfIdle
    /\ BackupIdle
    /\ RestoreIdle

\* lines 792-799: the command line of the inner tar
StartReader ==
    /\ f_pc = "member"
    /\ f_ret' = relpath(rstrip(f_args.filename, CharsOf(Suffix000)))
    /\ f_pc' = "started"
    /\ UNCHANGED <<f_args, f_loc>>
    /\ UNCHANGED <<wbfVars, backupVars, restoreVars>>

NextMember == StartReader

SpecMember == InitMember /\ [][NextMember]_vars

\* C38: for a chunk named L.000 the inner tar is asked for the member L:
\* the name without its last four characters, whatever the last character
\* of L is.
MemberIsLogicalPath ==
    f_pc = "started"
        => f_ret = SubSeq(f_args.filename, 1, Len(f_args.filename) - Len(Suffix000))

(***************************************************************************)
(* A chunk that is not the first of its file, with no inner tar running.   *)
(***************************************************************************)

\* the chunks written to restore_pipe
Feeds == {k \in DOMAIN f_ret : f_ret[k].op = "feed"}

\* C39: when the ExtractWorker takes from the queue a chunk whose name does
\* not end in .000 while no inner tar is running (as the first chunk of
\* all, or later), it ends with an error and a non-zero exit code, and
\* nothing of that chunk is written to restore_pipe.
NeedsReader ==
    /\ [][(x_pc = "open" /\ ~IsFirst(x_cur) /\ proc.addproc # "alive")
             => /\ x_pc' = "failed"
                /\ fed' = fed
                /\ {k \in DOMAIN f_ret' : f_ret'[k].op = "feed"} = Feeds
                /\ Last(f_ret').op = "error_callback"
                /\ disk' = disk]_vars
    /\ [](\A k \in Feeds :
             IsFirst(f_ret[k].file)
                \/ (k > 1 /\ f_ret[k - 1] = Event("newline", f_ret[k].file, 0)))

\* the first name on the queue was vm1/a.001: the worker has failed, with
\* nothing fed and the file still there
NeedsReaderWitness ==
    /\ x_pc = "failed"
    /\ f_args.queue # <<>>
    /\ f_args.queue[1] = Chunk1
    /\ x_cur = Chunk1
    /\ fed = <<>>
    /\ Feeds = {}
    /\ Chunk1 \in disk

(***************************************************************************)
(* Plans of total size 0.                                                  *)
(***************************************************************************)

\* C40: backup_do takes every plan of entries of size >= 0, the empty plan
\* and the plans of total size 0 included: the progress is computed
\* without a division by zero, and the run of such a plan, when it returns,
\* has sent the header pair first and FINISHED last.
AcceptsZeroSize ==
    /\ b_error # "ZeroDivisionError"
    /\ (b_pc = "done" /\ total_backup_sz = 0)
          => /\ Len(sent_log) >= 3
             /\ SubSeq(sent_log, 1, 2) = HeaderFiles
             /\ Last(sent_log) = FINISHED

============================================================================
